---- MODULE Spec2Model ----
(***************************************************************************)
(* Greedy duty-roster builder (schedule_builder.py), its hard-constraint   *)
(* checker (constraint_checker.py), the drivers main() and                 *)
(* run_schedule_generation, the web functions that rewrite the files and   *)
(* the settings generator (config_generator.py).                           *)
(*                                                                         *)
(* Dates are day numbers: day 0 is Monday 2025-02-17, d + 1 is the next    *)
(* calendar day, so date.weekday() is d % 7 (0 = Monday .. 6 = Sunday) and *)
(* (a - b).days is a - b.                                                  *)
(***************************************************************************)
EXTENDS Integers, Sequences, FiniteSets, TLC

VARIABLES
    settings,          \* parsed settings.yaml
    ng_dates_config,   \* parsed ng_dates.yaml (the 'ng_dates' mapping)
    member_stats,      \* MemberStats: member -> record, only known members
    start_date,        \* rotation period
    end_date,
    today,             \* the day date.today() returned last; the clock shows it or a later day
    pc,                \* position inside build_schedule() or a driver
    schedule,          \* the in-progress schedule of the current build
    mondays,           \* night weeks still to visit
    weekends,          \* weekend dates still to visit
    index,             \* next day index to fill on Head(weekends)
    trail,             \* slots committed by the current build, in order
    returned,          \* what the last call of build_schedule returned, if it did
    raised,            \* the error the last call of build_schedule raised, if it did
    init_error,        \* the exception the last ScheduleBuilder(...) of a build raised
    variant_count,     \* driver: max(1, variants), 0 when none is running
    schedules,         \* driver: list of (variant_index, schedule)
    failures,          \* driver: list of (variant_index, message)
    exit_code,         \* main(): sys.exit status, NoExit before it exits
    web_result         \* run_schedule_generation: the tuple it returned

files == <<settings, ng_dates_config, member_stats>>

vars == <<settings, ng_dates_config, member_stats, start_date, end_date,
          today, pc, schedule, mondays, weekends, index, trail,
          returned, raised, init_error, variant_count, schedules, failures,
          exit_code, web_result>>

\* what a build reads besides the clock
inputs == <<settings, ng_dates_config, member_stats, start_date, end_date>>

\* what the steps of a build leave alone
driver == <<init_error, variant_count, schedules, failures, exit_code,
            web_result>>

(***************************************************************************)
(* Encodings of Python's None / absent keys                                *)
(***************************************************************************)
Unset == -1
NoDate == -1000
NoMember == "None"
NoExit == -1
NoResult == "None"
NoError == "None"
\* reference_date: 'auto', a string date.fromisoformat rejects
AutoDate == -2000

(***************************************************************************)
(* Program constants                                                       *)
(***************************************************************************)
matsuda_name == "Matsuda"
DefaultMinDaysDay == 14
DefaultMinDaysNight == 21
DefaultMinDaysDayIndex3 == 7
DefaultNightToDayGap == 7
DefaultReferenceDate == 3
RecencyCapDays == 30

(***************************************************************************)
(* Generic helpers                                                         *)
(***************************************************************************)
Max(S) == CHOOSE x \in S : \A y \in S : y <= x
Min(S) == CHOOSE x \in S : \A y \in S : x <= y
MinOf(a, b) == IF a < b THEN a ELSE b

RECURSIVE SortedSeq(_)
SortedSeq(S) == IF S = {} THEN <<>> ELSE <<Min(S)>> \o SortedSeq(S \ {Min(S)})

Range(s) == {s[i] : i \in DOMAIN s}

GetOr(v, default) == IF v = Unset THEN default ELSE v

(***************************************************************************)
(* utils/date_utils.py                                                     *)
(***************************************************************************)
weekday(d) == d % 7

get_mondays_in_period(s, e) ==
    LET first == s + ((7 - weekday(s)) % 7)
        n == IF first > e THEN 0 ELSE ((e - first) \div 7) + 1
    IN [k \in 1..n |-> first + 7 * (k - 1)]

\* mutant: the weekend days are listed latest first
get_weekends_in_period_descending(s, e) ==
    LET asc == SortedSeq({d \in s..e : weekday(d) \in {5, 6}})
    IN [k \in 1..Len(asc) |-> asc[Len(asc) + 1 - k]]

\* mutant: the last day of the period is left out
get_weekends_in_period_openend(s, e) ==
    SortedSeq({d \in s..(e - 1) : weekday(d) \in {5, 6}})

get_weekends_in_period(s, e) ==
    SortedSeq({d \in s..e : weekday(d) \in {5, 6}})

(***************************************************************************)
(* ConstraintChecker.__init__                                              *)
(***************************************************************************)
min_days_day == GetOr(settings.min_days_day, DefaultMinDaysDay)
min_days_night == GetOr(settings.min_days_night, DefaultMinDaysNight)
min_days_day_index3 == GetOr(settings.min_days_day_index3, DefaultMinDaysDayIndex3)
night_to_day_gap == GetOr(settings.night_to_day_gap, DefaultNightToDayGap)

\* the four group lists in the order extract_configs visits them
AllEntries ==
    settings.day12 \o settings.day3 \o settings.night1 \o settings.night2

\* member_configs[name].get(field): the first entry of the member, updated
\* in place by every later entry of the same member (dict.update)
member_configs(name, field, unset) ==
    LET having == {k \in DOMAIN AllEntries :
                      AllEntries[k].name = name /\ AllEntries[k][field] # unset}
    IN IF having = {} THEN unset ELSE AllEntries[Max(having)][field]

_get_member_min_days_day(member) ==
    LET val == member_configs(member, "min_days_day", Unset)
    IN IF val # Unset THEN val ELSE min_days_day

_get_member_min_days_night(member) ==
    LET val == member_configs(member, "min_days_night", Unset)
    IN IF val # Unset THEN val ELSE min_days_night

(***************************************************************************)
(* ScheduleBuilder.__init__: the four candidate pools.  The checker is     *)
(* built first (line 51) and its extract_configs has by then updated the   *)
(* first entry of every member in place, so that entry is read merged.     *)
(***************************************************************************)
FirstEntryOf(name) == Min({k \in DOMAIN AllEntries : AllEntries[k].name = name})

EntryActive(k) ==
    LET e == AllEntries[k]
        a == IF FirstEntryOf(e.name) = k
             THEN member_configs(e.name, "active", "unset")
             ELSE e.active
    IN a # "false"

GroupPool(off, len) ==
    LET keep == SortedSeq({k \in (off + 1)..(off + len) : EntryActive(k)})
    IN [i \in 1..Len(keep) |-> AllEntries[keep[i]].name]

day_index_1_2_group == GroupPool(0, Len(settings.day12))
day_index_3_group == GroupPool(Len(settings.day12), Len(settings.day3))
night_index_1_group ==
    GroupPool(Len(settings.day12) + Len(settings.day3), Len(settings.night1))
night_index_2_group ==
    GroupPool(Len(settings.day12) + Len(settings.day3) + Len(settings.night1),
              Len(settings.night2))

matsuda_enabled == settings.matsuda_enabled
matsuda_reference_date == GetOr(settings.reference_date, DefaultReferenceDate)

global_ng_dates == ng_dates_config.global

(***************************************************************************)
(* ConstraintChecker: the hard rules.  Each returns TRUE for "OK".         *)
(***************************************************************************)
\* dates (or week starts) of one half of a schedule that hold the member
AssignedDates(part, member) ==
    {d \in DOMAIN part : \E i \in DOMAIN part[d] : part[d][i] = member}

check_day_index_constraint(member, target_index, stats) ==
    IF member \notin DOMAIN stats THEN TRUE
    ELSE LET past_indexes == stats[member].day_indexes
         IN IF target_index = 3 /\ (\E i \in past_indexes : i \in {1, 2})
            THEN FALSE
            ELSE IF target_index \in {1, 2} /\ 3 \in past_indexes
            THEN FALSE
            ELSE TRUE

\* mutant: only the "index 2 held, index 1 wanted" direction is checked
check_night_index_constraint_oneway(member, target_index, stats) ==
    IF member \notin DOMAIN stats THEN TRUE
    ELSE LET past_indexes == stats[member].night_indexes
         IN IF target_index = 1 /\ 2 \in past_indexes
            THEN FALSE
            ELSE TRUE

check_night_index_constraint(member, target_index, stats) ==
    IF member \notin DOMAIN stats THEN TRUE
    ELSE LET past_indexes == stats[member].night_indexes
         IN IF target_index = 2 /\ 1 \in past_indexes
            THEN FALSE
            ELSE IF target_index = 1 /\ 2 \in past_indexes
            THEN FALSE
            ELSE TRUE

\* mutant: the night week is taken to end on its Friday
check_overlap_constraint_weekdays(member, target_date, shift_type, current_schedule) ==
    IF shift_type = "day"
    THEN ~ \E week_start \in AssignedDates(current_schedule.night, member) :
             week_start <= target_date /\ target_date <= week_start + 4
    ELSE ~ \E day_date \in AssignedDates(current_schedule.day, member) :
             target_date <= day_date /\ day_date <= target_date + 4

check_overlap_constraint(member, target_date, shift_type, current_schedule) ==
    IF shift_type = "day"
    THEN ~ \E week_start \in AssignedDates(current_schedule.night, member) :
             week_start <= target_date /\ target_date <= week_start + 6
    ELSE ~ \E day_date \in AssignedDates(current_schedule.day, member) :
             target_date <= day_date /\ day_date <= target_date + 6

check_night_to_day_gap(member, target_date, current_schedule) ==
    ~ \E week_start \in AssignedDates(current_schedule.night, member) :
        LET night_end == week_start + 6
            days_since == target_date - night_end
        IN 0 < days_since /\ days_since < night_to_day_gap

\* mutant: an assignment on the target date itself is not compared
check_min_interval_day_otherdates(member, target_date, target_index, current_schedule) ==
    LET min_days == IF target_index = 3 THEN min_days_day_index3
                    ELSE _get_member_min_days_day(member)
        mine == AssignedDates(current_schedule.day, member) \ {target_date}
    IN IF mine = {} THEN TRUE
       ELSE LET last_day_date == Max(mine)
                days_since == target_date - last_day_date
            IN ~ (days_since < min_days)

\* mutant: the member's earliest day date is compared, not the latest
check_min_interval_day_earliest(member, target_date, target_index, current_schedule) ==
    LET min_days == IF target_index = 3 THEN min_days_day_index3
                    ELSE _get_member_min_days_day(member)
        mine == AssignedDates(current_schedule.day, member)
    IN IF mine = {} THEN TRUE
       ELSE LET last_day_date == Min(mine)
                days_since == target_date - last_day_date
            IN ~ (days_since < min_days)

check_min_interval_day(member, target_date, target_index, current_schedule) ==
    LET min_days == IF target_index = 3 THEN min_days_day_index3
                    ELSE _get_member_min_days_day(member)
        mine == AssignedDates(current_schedule.day, member)
    IN IF mine = {} THEN TRUE
       ELSE LET last_day_date == Max(mine)
                days_since == target_date - last_day_date
            IN ~ (days_since < min_days)

\* mutant: the day half of the schedule is searched for the last night week
check_min_interval_night_dayhalf(member, target_week_start, current_schedule) ==
    LET min_days == _get_member_min_days_night(member)
        mine == AssignedDates(current_schedule.day, member)
    IN IF mine = {} THEN TRUE
       ELSE LET last_night_week == Max(mine)
                days_since == target_week_start - last_night_week
            IN ~ (days_since < min_days)

check_min_interval_night(member, target_week_start, current_schedule) ==
    LET min_days == _get_member_min_days_night(member)
        mine == AssignedDates(current_schedule.night, member)
    IN IF mine = {} THEN TRUE
       ELSE LET last_night_week == Max(mine)
                days_since == target_week_start - last_night_week
            IN ~ (days_since < min_days)

\* mutant: the first day of a range is not excluded
check_ng_dates_openstart(member, target_date) ==
    LET member_ng_dates == IF member \in DOMAIN ng_dates_config.by_member
                           THEN ng_dates_config.by_member[member] ELSE {}
        member_periods == IF member \in DOMAIN ng_dates_config.by_period
                          THEN ng_dates_config.by_period[member] ELSE {}
    IN IF target_date \in member_ng_dates THEN FALSE
       ELSE IF \E period \in member_periods :
                 period.start < target_date /\ target_date <= period.end
       THEN FALSE
       ELSE TRUE

\* by_member: member -> set of dates; by_period: member -> set of [start, end]
check_ng_dates(member, target_date) ==
    LET member_ng_dates == IF member \in DOMAIN ng_dates_config.by_member
                           THEN ng_dates_config.by_member[member] ELSE {}
        member_periods == IF member \in DOMAIN ng_dates_config.by_period
                          THEN ng_dates_config.by_period[member] ELSE {}
    IN IF target_date \in member_ng_dates THEN FALSE
       ELSE IF \E period \in member_periods :
                 period.start <= target_date /\ target_date <= period.end
       THEN FALSE
       ELSE TRUE

check_matsuda_biweekly(target_week_start, reference_date) ==
    LET weeks_diff == (target_week_start - reference_date) \div 7
    IN weeks_diff % 2 = 0

\* mutant: the first violated rule ends the validation
validate_all_constraints_shortcircuit(member, target_date, shift_type, target_index, current_schedule, stats) ==
    IF ~ (IF shift_type = "day"
          THEN check_day_index_constraint(member, target_index, stats)
          ELSE check_night_index_constraint(member, target_index, stats))
    THEN <<"index">>
    ELSE IF ~ check_overlap_constraint(member, target_date, shift_type,
                                       current_schedule)
    THEN <<"overlap">>
    ELSE IF shift_type = "day"
            /\ ~ check_night_to_day_gap(member, target_date, current_schedule)
    THEN <<"night_to_day_gap">>
    ELSE IF ~ (IF shift_type = "day"
               THEN check_min_interval_day(member, target_date, target_index,
                                           current_schedule)
               ELSE check_min_interval_night(member, target_date,
                                             current_schedule))
    THEN <<"min_interval">>
    ELSE IF ~ check_ng_dates(member, target_date)
    THEN <<"ng_date">>
    ELSE <<>>

\* the list of violated rules, in the order the checks are made
validate_all_constraints(member, target_date, shift_type, target_index, current_schedule, stats) ==
    LET e1 == IF shift_type = "day"
              THEN IF check_day_index_constraint(member, target_index, stats)
                   THEN <<>> ELSE <<"index">>
              ELSE IF check_night_index_constraint(member, target_index, stats)
                   THEN <<>> ELSE <<"index">>
        e2 == IF check_overlap_constraint(member, target_date, shift_type,
                                          current_schedule)
              THEN <<>> ELSE <<"overlap">>
        e3 == IF shift_type = "day"
                 /\ ~ check_night_to_day_gap(member, target_date, current_schedule)
              THEN <<"night_to_day_gap">> ELSE <<>>
        e4 == IF shift_type = "day"
              THEN IF check_min_interval_day(member, target_date, target_index,
                                             current_schedule)
                   THEN <<>> ELSE <<"min_interval">>
              ELSE IF check_min_interval_night(member, target_date,
                                               current_schedule)
                   THEN <<>> ELSE <<"min_interval">>
        e5 == IF check_ng_dates(member, target_date) THEN <<>> ELSE <<"ng_date">>
    IN e1 \o e2 \o e3 \o e4 \o e5

IsValid(member, target_date, shift_type, target_index, current_schedule) ==
    validate_all_constraints(member, target_date, shift_type, target_index,
                             current_schedule, member_stats) = <<>>

(***************************************************************************)
(* Python float arithmetic (IEEE-754 binary64, round to nearest, ties to   *)
(* even).  A float is [neg, m, e], the value (-1)^neg * m * 2^e, with m a  *)
(* natural number of at most 53 bits kept as little-endian limbs of 15     *)
(* bits; one value may have several such forms, so floats are compared     *)
(* with FloatGreater and FloatEqual, never with =.                         *)
(***************************************************************************)
LimbBase == 32768
LimbBits == 15
MantissaBits == 53

Rest(a) == IF a = <<>> THEN <<>> ELSE Tail(a)
Limb0(a) == IF a = <<>> THEN 0 ELSE Head(a)

RECURSIVE Trim(_)
Trim(a) == IF a = <<>> \/ a[Len(a)] # 0 THEN a ELSE Trim(SubSeq(a, 1, Len(a) - 1))

RECURSIVE NatLimbs(_)
NatLimbs(n) == IF n = 0 THEN <<>> ELSE <<n % LimbBase>> \o NatLimbs(n \div LimbBase)

RECURSIVE Pow2(_)
Pow2(k) == IF k = 0 THEN 1 ELSE 2 * Pow2(k - 1)

RECURSIVE SmallBitLen(_)
SmallBitLen(n) == IF n = 0 THEN 0 ELSE 1 + SmallBitLen(n \div 2)

BitLen(a) == IF a = <<>> THEN 0 ELSE LimbBits * (Len(a) - 1) + SmallBitLen(a[Len(a)])

RECURSIVE AddLimbs(_, _, _)
AddLimbs(a, b, carry) ==
    IF a = <<>> /\ b = <<>> THEN NatLimbs(carry)
    ELSE LET s == Limb0(a) + Limb0(b) + carry
         IN <<s % LimbBase>> \o AddLimbs(Rest(a), Rest(b), s \div LimbBase)

\* a - b - borrow for a >= b + borrow, not trimmed
RECURSIVE SubLimbs(_, _, _)
SubLimbs(a, b, borrow) ==
    IF a = <<>> THEN <<>>
    ELSE LET s == Limb0(a) - Limb0(b) - borrow
         IN <<s % LimbBase>> \o SubLimbs(Rest(a), Rest(b), IF s < 0 THEN 1 ELSE 0)

\* -1, 0, 1 as a < b, a = b, a > b (both trimmed)
RECURSIVE CmpLimbs(_, _)
CmpLimbs(a, b) ==
    IF Len(a) # Len(b) THEN (IF Len(a) < Len(b) THEN -1 ELSE 1)
    ELSE IF a = <<>> THEN 0
    ELSE IF a[Len(a)] # b[Len(b)] THEN (IF a[Len(a)] < b[Len(b)] THEN -1 ELSE 1)
    ELSE CmpLimbs(Trim(SubSeq(a, 1, Len(a) - 1)), Trim(SubSeq(b, 1, Len(b) - 1)))

RECURSIVE MulSmall(_, _, _)
MulSmall(a, k, carry) ==
    IF a = <<>> THEN NatLimbs(carry)
    ELSE LET s == Head(a) * k + carry
         IN <<s % LimbBase>> \o MulSmall(Tail(a), k, s \div LimbBase)

RECURSIVE MulLimbs(_, _)
MulLimbs(a, b) ==
    IF a = <<>> \/ b = <<>> THEN <<>>
    ELSE AddLimbs(MulSmall(a, Head(b), 0),
                  IF Tail(b) = <<>> THEN <<>> ELSE <<0>> \o MulLimbs(a, Tail(b)), 0)

\* quotient and remainder of a by 0 < k <= LimbBase, highest limb first
RECURSIVE DivSmall(_, _)
DivSmall(a, k) ==
    IF a = <<>> THEN [q |-> <<>>, r |-> 0]
    ELSE LET hi == DivSmall(SubSeq(a, 2, Len(a)), k)
             s == hi.r * LimbBase + Head(a)
         IN [q |-> Trim(<<s \div k>> \o hi.q), r |-> s % k]

Zeros(n) == [i \in 1..n |-> 0]
ShiftLeft(a, k) ==
    IF a = <<>> THEN <<>>
    ELSE Zeros(k \div LimbBits) \o MulSmall(a, Pow2(k % LimbBits), 0)
ShiftRight(a, k) ==
    IF k \div LimbBits >= Len(a) THEN <<>>
    ELSE DivSmall(SubSeq(a, (k \div LimbBits) + 1, Len(a)), Pow2(k % LimbBits)).q

Float(neg, m, e) == [neg |-> neg, m |-> m, e |-> e]
FloatZero == Float(FALSE, <<>>, 0)

\* round to nearest, ties to even, at 53 bits
RoundFloat(x) ==
    LET s == BitLen(x.m) - MantissaBits
    IN IF s <= 0 THEN x
       ELSE LET q == ShiftRight(x.m, s)
                r == Trim(SubLimbs(x.m, ShiftLeft(q, s), 0))
                c == CmpLimbs(r, ShiftLeft(<<1>>, s - 1))
                up == c > 0 \/ (c = 0 /\ Limb0(q) % 2 = 1)
            IN Float(x.neg, IF up THEN AddLimbs(q, <<>>, 1) ELSE q, x.e + s)

\* the exact sum of two floats, unrounded
ExactSum(a, b) ==
    LET e == IF a.e < b.e THEN a.e ELSE b.e
        ma == ShiftLeft(a.m, a.e - e)
        mb == ShiftLeft(b.m, b.e - e)
        c == CmpLimbs(ma, mb)
    IN IF a.neg = b.neg THEN Float(a.neg, AddLimbs(ma, mb, 0), e)
       ELSE IF c = 0 THEN FloatZero
       ELSE IF c > 0 THEN Float(a.neg, Trim(SubLimbs(ma, mb, 0)), e)
       ELSE Float(b.neg, Trim(SubLimbs(mb, ma, 0)), e)

\* a + b; a zero operand leaves the other one
FloatAdd(a, b) ==
    IF a.m = <<>> THEN b
    ELSE IF b.m = <<>> THEN a
    ELSE RoundFloat(ExactSum(a, b))

\* a * b; a power of two as operand only moves the exponent
FloatMul(a, b) ==
    IF a.m = <<>> \/ b.m = <<>> THEN FloatZero
    ELSE IF a.m = <<1>> THEN Float(a.neg # b.neg, b.m, a.e + b.e)
    ELSE IF b.m = <<1>> THEN Float(a.neg # b.neg, a.m, a.e + b.e)
    ELSE RoundFloat(Float(a.neg # b.neg, MulLimbs(a.m, b.m), a.e + b.e))

\* float(x) / float(y) for integers x and 0 < y < LimbBase: an integer
\* quotient is exact, any other is the quotient to 76 binary places with a
\* sticky last bit, rounded
FloatDiv(x, y) ==
    IF x % y = 0 THEN Float(x < 0, NatLimbs((IF x < 0 THEN -x ELSE x) \div y), 0)
    ELSE LET d == DivSmall(ShiftLeft(NatLimbs(IF x < 0 THEN -x ELSE x), 75), y)
         IN RoundFloat(Float(x < 0, AddLimbs(ShiftLeft(d.q, 1), <<>>, 1), -76))
FloatGreater(a, b) ==
    LET d == ExactSum(a, Float(~ b.neg, b.m, b.e))
    IN d.m # <<>> /\ ~ d.neg
FloatMin(a, b) == IF FloatGreater(a, b) THEN b ELSE a

FloatEqual(a, b) == ExactSum(a, Float(~ b.neg, b.m, b.e)).m = <<>>

\* the literals of _calculate_priority_score
\* 1.0, 0.5 = 2^-1, 0.3 = 5404319552844595 * 2^-54 and
\* 0.2 = 3602879701896397 * 2^-54, the nearest floats of the decimals
FloatOne == Float(FALSE, <<1>>, 0)
WeightCurrent == Float(FALSE, <<1>>, -1)
WeightRecency == Float(FALSE, <<13107, 26214, 19660, 153>>, -54)
WeightPast == Float(FALSE, <<19661, 6553, 13107, 102>>, -54)

\* the three terms of the score
CurrentTerm(current_count) ==
    FloatMul(FloatDiv(1, current_count + 1), WeightCurrent)
RecencyTerm(days_since) ==
    FloatMul(FloatMin(FloatDiv(days_since, RecencyCapDays), FloatOne),
             WeightRecency)
PastTerm(past_count) == FloatMul(FloatDiv(1, past_count + 1), WeightPast)

(***************************************************************************)
(* ScheduleBuilder: priority score and candidate selection.  The score is  *)
(* the float the three "score +=" statements leave, rounding included.     *)
(***************************************************************************)
_count_in_schedule(member, shift_type, current_schedule) ==
    LET part == current_schedule[shift_type]
    IN Cardinality({p \in (DOMAIN part) \X {1, 2, 3} :
                       p[2] \in DOMAIN part[p[1]] /\ part[p[1]][p[2]] = member})

\* mutant: the latest assignment of either shift type counts
_get_last_assignment_anytype(member, shift_type, current_schedule) ==
    LET mine == AssignedDates(current_schedule.day, member)
                  \cup AssignedDates(current_schedule.night, member)
    IN IF mine # {} THEN Max(mine)
       ELSE IF member \in DOMAIN member_stats
       THEN member_stats[member].last_date
       ELSE NoDate

_get_last_assignment(member, shift_type, current_schedule) ==
    LET mine == AssignedDates(current_schedule[shift_type], member)
    IN IF mine # {} THEN Max(mine)
       ELSE IF member \in DOMAIN member_stats
       THEN member_stats[member].last_date
       ELSE NoDate

\* days_since and past_count of a member without a last date or without stats
NoDays == 1000000
NoPast == -1

\* score = 0.0; score += (1.0 / (current_count + 1)) * 0.5;
\* score += min(days_since / 30.0, 1.0) * 0.3, or 1.0 * 0.3 without last_date;
\* score += (1.0 / (past_count + 1)) * 0.2, or 1.0 * 0.2 without stats
Score(current_count, days_since, past_count) ==
    LET score1 == FloatAdd(FloatZero, CurrentTerm(current_count))
        score2 == FloatAdd(score1,
                           IF days_since # NoDays THEN RecencyTerm(days_since)
                           ELSE FloatMul(FloatOne, WeightRecency))
    IN FloatAdd(score2,
                IF past_count # NoPast THEN PastTerm(past_count)
                ELSE FloatMul(FloatOne, WeightPast))

\* Score of the arguments the bounds reach, evaluated once
TableCounts == 0..6
TableDays == ((-51)..67) \cup {NoDays}
TablePasts == {NoPast, 0, 1, 2, 3, 4, 10, 100}
ScoreTable ==
    [c \in TableCounts, d \in TableDays, p \in TablePasts |-> Score(c, d, p)] @@ <<>>

\* now: what date.today() returns to this call
_calculate_priority_score(member, shift_type, current_schedule, now) ==
    LET current_count == _count_in_schedule(member, shift_type, current_schedule)
        last_date == _get_last_assignment(member, shift_type, current_schedule)
        days_since == IF last_date # NoDate THEN now - last_date ELSE NoDays
        past_count == IF member \notin DOMAIN member_stats THEN NoPast
                      ELSE IF shift_type = "day"
                      THEN member_stats[member].day_count
                      ELSE member_stats[member].night_count
    IN IF <<current_count, days_since, past_count>> \in DOMAIN ScoreTable
       THEN ScoreTable[current_count, days_since, past_count]
       ELSE Score(current_count, days_since, past_count)

\* x[1] > y[1] of the descending sort
ScoreGreater(a, b) == FloatGreater(a, b)

RemoveAt(s, i) == [k \in 1..(Len(s) - 1) |-> IF k < i THEN s[k] ELSE s[k + 1]]

\* the scores of the (candidate, score) pairs of valid_candidates; clock[i] is
\* the day the clock shows while the i-th validated candidate is scored
ScoreList(valid, shift_type, current_schedule, clock) ==
    [i \in DOMAIN valid |->
        _calculate_priority_score(valid[i], shift_type, current_schedule,
                                  clock[i])]

\* positions holding a score that no other score exceeds
TopPositions(scores) ==
    {i \in DOMAIN scores :
        \A j \in DOMAIN scores : ~ ScoreGreater(scores[j], scores[i])}

\* mutant: among equal scores the latest of the pool comes first
RECURSIVE SortDescending_latestfirst(_, _)
SortDescending_latestfirst(valid, scores) ==
    IF valid = <<>> THEN <<>>
    ELSE LET best == Max(TopPositions(scores))
         IN <<valid[best]>>
            \o SortDescending_latestfirst(RemoveAt(valid, best),
                                          RemoveAt(scores, best))

RankCandidates_latestfirst(valid, shift_type, current_schedule, clock) ==
    SortDescending_latestfirst(valid, ScoreList(valid, shift_type,
                                                current_schedule, clock))

\* mutant: the validated candidates are left in pool order
RankCandidates_unsorted(valid, shift_type, current_schedule, clock) == valid

\* list.sort(key=score, reverse=True): stable, highest first
RECURSIVE SortDescending(_, _)
SortDescending(valid, scores) ==
    IF valid = <<>> THEN <<>>
    ELSE LET best == Min(TopPositions(scores))
         IN <<valid[best]>>
            \o SortDescending(RemoveAt(valid, best), RemoveAt(scores, best))

\* valid_candidates.sort(key=lambda x: x[1], reverse=True)
RankCandidates(valid, shift_type, current_schedule, clock) ==
    SortDescending(valid, ScoreList(valid, shift_type, current_schedule, clock))

ValidCandidates(candidates, target_date, shift_type, target_index, current_schedule) ==
    SelectSeq(candidates,
              LAMBDA c : IsValid(c, target_date, shift_type, target_index,
                                 current_schedule))

\* mutant: with no valid candidate the first of the pool is returned
_select_best_candidate_fallback(candidates, target_date, shift_type, target_index, current_schedule, clock) ==
    LET valid_candidates == ValidCandidates(candidates, target_date, shift_type,
                                            target_index, current_schedule)
    IN IF valid_candidates = <<>>
       THEN IF candidates = <<>> THEN NoMember ELSE candidates[1]
       ELSE RankCandidates(valid_candidates, shift_type, current_schedule,
                           clock)[1]

\* clock: the days date.today() returns to the score computations of the
\* call, one for each validated candidate, in the order of the pool
_select_best_candidate(candidates, target_date, shift_type, target_index, current_schedule, clock) ==
    LET valid_candidates == ValidCandidates(candidates, target_date, shift_type,
                                            target_index, current_schedule)
    IN IF valid_candidates = <<>> THEN NoMember
       ELSE RankCandidates(valid_candidates, shift_type, current_schedule,
                           clock)[1]

(***************************************************************************)
(* build_schedule as a sequence of slot steps.  The slot about to be       *)
(* filled is determined by pc, Head(mondays) / Head(weekends) and index.   *)
(***************************************************************************)
\* mutant: the build starts from a schedule that already holds a day date
EmptySchedule_withday ==
    [day |-> ((start_date - 1) :> <<"A", "B", "E">>), night |-> <<>>]

EmptySchedule == [day |-> <<>>, night |-> <<>>]

\* schedule['night'][monday] = {}  /  schedule['day'][weekend_date] = {}
OpenNight(cs, monday) ==
    IF monday \in DOMAIN cs.night THEN cs
    ELSE [cs EXCEPT !.night = (monday :> <<>>) @@ @]

OpenDay(cs, d) ==
    IF d \in DOMAIN cs.day THEN cs
    ELSE [cs EXCEPT !.day = (d :> <<>>) @@ @]

\* mutant: the week's mapping is replaced instead of extended
PutNight_overwrite(cs, monday, i, member) ==
    [cs EXCEPT !.night[monday] = (i :> member)]

PutNight(cs, monday, i, member) ==
    [cs EXCEPT !.night[monday] = (i :> member) @@ @]

PutDay(cs, d, i, member) ==
    [cs EXCEPT !.day[d] = (i :> member) @@ @]

\* mutant: one globally excluded weekday is enough to skip the week
is_full_holiday_week_any(monday) ==
    \E i \in 0..4 : (monday + i) \in global_ng_dates

is_full_holiday_week(monday) ==
    \A i \in 0..4 : (monday + i) \in global_ng_dates

IsMatsudaWeek(monday) ==
    matsuda_enabled /\ check_matsuda_biweekly(monday, matsuda_reference_date)

WithoutMatsuda(group) == SelectSeq(group, LAMBDA m : m # matsuda_name)

Slot(t, d, i) == [shift_type |-> t, date |-> d, index |-> i]

(***************************************************************************)
(* ScheduleAnalyzer.  Dictionaries are walked in insertion order, which    *)
(* for a schedule of the builder is ascending by date and by index.        *)
(***************************************************************************)
threshold_days == 7

RECURSIVE Flatten(_)
Flatten(ss) == IF ss = <<>> THEN <<>> ELSE Head(ss) \o Flatten(Tail(ss))

\* mutant: only the weekdays of the night week are compared
_check_overlaps_weekdays(s) ==
    LET weeks == SortedSeq(DOMAIN s.night)
        days == SortedSeq(DOMAIN s.day)
        hits(w, n_idx, d) ==
            LET d_idx == SortedSeq({i \in DOMAIN s.day[d] :
                                      s.day[d][i] = s.night[w][n_idx]})
            IN [j \in 1..Len(d_idx) |-> [member |-> s.night[w][n_idx], date |-> d]]
        of_member(w, n_idx) ==
            Flatten([j \in 1..Len(days) |->
                        IF w <= days[j] /\ days[j] <= w + 4
                        THEN hits(w, n_idx, days[j]) ELSE <<>>])
        of_week(w) ==
            LET n == SortedSeq(DOMAIN s.night[w])
            IN Flatten([j \in 1..Len(n) |-> of_member(w, n[j])])
    IN Flatten([j \in 1..Len(weeks) |-> of_week(weeks[j])])

\* analysis_result["overlaps"]
_check_overlaps(s) ==
    LET weeks == SortedSeq(DOMAIN s.night)
        days == SortedSeq(DOMAIN s.day)
        hits(w, n_idx, d) ==
            LET d_idx == SortedSeq({i \in DOMAIN s.day[d] :
                                      s.day[d][i] = s.night[w][n_idx]})
            IN [j \in 1..Len(d_idx) |-> [member |-> s.night[w][n_idx], date |-> d]]
        of_member(w, n_idx) ==
            Flatten([j \in 1..Len(days) |->
                        IF w <= days[j] /\ days[j] <= w + 6
                        THEN hits(w, n_idx, days[j]) ELSE <<>>])
        of_week(w) ==
            LET n == SortedSeq(DOMAIN s.night[w])
            IN Flatten([j \in 1..Len(n) |-> of_member(w, n[j])])
    IN Flatten([j \in 1..Len(weeks) |-> of_week(weeks[j])])

\* the assignments as _check_close_intervals collects them: day entries,
\* then night entries
Assignments(s) ==
    LET days == SortedSeq(DOMAIN s.day)
        weeks == SortedSeq(DOMAIN s.night)
        day_of(d) ==
            LET idx == SortedSeq(DOMAIN s.day[d])
            IN [j \in 1..Len(idx) |->
                  [member |-> s.day[d][idx[j]], start |-> d, end |-> d,
                   type |-> "day"]]
        night_of(w) ==
            LET idx == SortedSeq(DOMAIN s.night[w])
            IN [j \in 1..Len(idx) |->
                  [member |-> s.night[w][idx[j]], start |-> w, end |-> w + 6,
                   type |-> "night"]]
    IN Flatten([j \in 1..Len(days) |-> day_of(days[j])])
         \o Flatten([j \in 1..Len(weeks) |-> night_of(weeks[j])])

\* the keys of member_assignments, in insertion order
MemberOrder(a) ==
    LET firsts == SortedSeq({i \in DOMAIN a :
                               \A j \in 1..(i - 1) : a[j].member # a[i].member})
    IN [k \in 1..Len(firsts) |-> a[firsts[k]].member]

\* assignments.sort(key=lambda x: x['start']): stable, ascending
RECURSIVE SortByStart(_)
SortByStart(a) ==
    IF a = <<>> THEN <<>>
    ELSE LET first == Min({i \in DOMAIN a :
                             \A j \in DOMAIN a : a[j].start >= a[i].start})
         IN <<a[first]>> \o SortByStart(RemoveAt(a, first))

\* analysis_result["close_intervals"]
_check_close_intervals(s) ==
    LET all == Assignments(s)
        members == MemberOrder(all)
        of(member) ==
            LET assignments == SortByStart(SelectSeq(all,
                                              LAMBDA x : x.member = member))
                gap(i) == assignments[i + 1].start - assignments[i].end
                close == SortedSeq({i \in 1..(Len(assignments) - 1) :
                                      0 < gap(i) /\ gap(i) <= threshold_days})
            IN [k \in 1..Len(close) |->
                  [member |-> member, gap |-> gap(close[k]),
                   from |-> [type |-> assignments[close[k]].type,
                             start |-> assignments[close[k]].start],
                   to |-> [type |-> assignments[close[k] + 1].type,
                           start |-> assignments[close[k] + 1].start]]]
    IN Flatten([k \in 1..Len(members) |-> of(members[k])])

(***************************************************************************)
(* Bounds and input sets                                                   *)
(***************************************************************************)
MaxWeeks == 2
MaxVariants == 2
MaxTopK == 2

PeriodStarts == {0, 5}
Todays == {-3, 27}

Entry(n) == [name |-> n, active |-> "true",
             min_days_day |-> Unset, min_days_night |-> Unset]

With(e, field, v) == [e EXCEPT ![field] = v]

\* L1: the shape of the shipped settings; L2: overrides, an inactive entry,
\* a member listed for both day tracks; L4: a member whose later entry is
\* inactive and an inactive fixed member
GroupLayouts ==
    { [day12 |-> <<Entry("A"), Entry("B"), Entry("C"), Entry("D")>>,
       day3 |-> <<Entry("E"), Entry("F")>>,
       night1 |-> <<Entry("A"), Entry("D")>>,
       night2 |-> <<Entry(matsuda_name), Entry("E")>>],
      [day12 |-> <<With(Entry("A"), "min_days_day", 7), Entry("B"),
                   With(Entry("C"), "active", "false")>>,
       day3 |-> <<Entry("E"), Entry("B")>>,
       night1 |-> <<With(Entry("B"), "min_days_night", 14), Entry("A")>>,
       night2 |-> <<Entry("C"), With(Entry(matsuda_name), "min_days_night", 7)>>],
      [day12 |-> <<Entry("A"), Entry("B"), Entry("C")>>,
       day3 |-> <<Entry("D")>>,
       night1 |-> <<Entry("D"), With(Entry("A"), "active", "false")>>,
       night2 |-> <<Entry("B"), With(Entry(matsuda_name), "active", "false")>>] }

\* soft_constraints.day_to_night_gap of the settings; penalties in hundredths.
Soft(e, ts, tw, ps, pw) ==
    [enabled |-> e, days_threshold_strong |-> ts, days_threshold_weak |-> tw,
     penalty_strong |-> ps, penalty_weak |-> pw]

Constraints(d, n, d3, g, sc) ==
    [min_days_day |-> d, min_days_night |-> n, min_days_day_index3 |-> d3,
     night_to_day_gap |-> g, soft |-> sc]

ConstraintSets ==
    { Constraints(7, 7, Unset, Unset, Soft(FALSE, 3, 7, 30, 15)),
      Constraints(1, 7, 1, Unset, Soft(TRUE, 1, 2, 30, 15)),
      Constraints(1, 14, 1, 3, Soft(TRUE, 2, 9, 50, 10)) }

MatsudaSets ==
    [matsuda_enabled : BOOLEAN, reference_date : {Unset}]

ProductSettings ==
    { [day12 |-> g.day12, day3 |-> g.day3, night1 |-> g.night1,
       night2 |-> g.night2,
       min_days_day |-> c.min_days_day, min_days_night |-> c.min_days_night,
       min_days_day_index3 |-> c.min_days_day_index3,
       night_to_day_gap |-> c.night_to_day_gap,
       soft |-> c.soft,
       matsuda_enabled |-> m.matsuda_enabled,
       reference_date |-> m.reference_date] :
      g \in GroupLayouts, c \in ConstraintSets, m \in MatsudaSets }

Stat(dc, nc, di, ni, last) ==
    [day_count |-> dc, night_count |-> nc, day_indexes |-> di,
     night_indexes |-> ni, last_date |-> last]

Periods ==
    { [start |-> s0, end |-> s0 + 7 * w - 1] : s0 \in PeriodStarts, w \in 1..MaxWeeks }

\* the inputs of test_no_candidate_error: one member in day index_1_2_group,
\* the other groups of the test fixture, and a build over
\* 2025-03-22 .. 2025-04-06 (days 33 .. 48)
SingleMemberSettings ==
    [day12 |-> <<Entry("A")>>,
     day3 |-> <<Entry("E"), Entry("F")>>,
     night1 |-> <<Entry("A"), Entry("D")>>,
     night2 |-> <<Entry(matsuda_name), Entry("E")>>,
     min_days_day |-> 14, min_days_night |-> 21,
     min_days_day_index3 |-> Unset, night_to_day_gap |-> 7,
     soft |-> Soft(FALSE, 3, 7, 30, 15),
     matsuda_enabled |-> TRUE, reference_date |-> 3]

SingleMemberStats ==
    ("A" :> Stat(100, 0, {1, 2}, {}, 31)) @@ ("E" :> Stat(10, 0, {3}, {}, -2))

\* groups sharing members between the two night indexes and between the
\* two day tracks, with every interval setting equal to x
SharedPoolSettings(x) ==
    [day12 |-> <<Entry("A"), Entry("B"), Entry("D"), With(Entry("G"), "min_days_day", x)>>,
     day3 |-> <<Entry("B"), Entry("F")>>,
     night1 |-> <<Entry("A"), Entry("B")>>,
     night2 |-> <<With(Entry("A"), "min_days_night", x), Entry("C")>>,
     min_days_day |-> x, min_days_night |-> x,
     min_days_day_index3 |-> x, night_to_day_gap |-> Unset,
     soft |-> Soft(FALSE, 3, 7, 30, 15),
     matsuda_enabled |-> FALSE, reference_date |-> Unset]

\* history that bars C, the other member of night index_2_group, from index 2
SharedPoolStats == ("C" :> Stat(0, 1, {}, {1}, -10))

\* the settings files: the product of the layouts, the constraints and the
\* fixed pattern, and the shared pools with intervals of 1 day
SettingsSet == ProductSettings \cup {SharedPoolSettings(1)}

StatsSet ==
    { <<>>,
      ("A" :> Stat(1, 1, {3}, {}, -40)) @@ ("B" :> Stat(0, 0, {}, {}, -5))
        @@ ("C" :> Stat(2, 0, {1}, {}, -12))
        @@ (matsuda_name :> Stat(0, 1, {}, {1}, -10)),
      SharedPoolStats }

\* arguments of the requests that rewrite the files
EditDates == {11}
EditMembers == {"A"}
EditMemberDates == {5}
EditPeriodMembers == {"B"}
EditPeriods == {[start |-> 5, end |-> 7]}

\* the exclusion files: the Sunday of day 6 and the four weekdays after it
\* are global dates of all of them; the Friday that completes the holiday
\* week, the date of A and the range of B are what the requests add and
\* remove
NGSet ==
    { [global |-> {6, 7, 8, 9, 10} \cup g,
       by_member |-> [m \in ms |-> EditMemberDates],
       by_period |-> [m \in ps |-> EditPeriods]] :
      g \in SUBSET EditDates, ms \in SUBSET EditMembers,
      ps \in SUBSET EditPeriodMembers }

SavedNGDates ==
    { [global |-> {6, 7, 8, 9, 10, 11}, by_member |-> <<>>, by_period |-> <<>>] }
SavedSettings == {SharedPoolSettings(1)}
UploadedStats == {SharedPoolStats}
\* a key the request body of update_member_attributes does not hold
NotInData == -2
MemberUpdates ==
    { [name |-> "G", min_days_day |-> 1, min_days_night |-> NotInData] }

\* a form field the request does not hold (form_data.get gives None)
Absent == -3
\* a form value int() rejects, such as the empty string of an empty field
NotInt == -4

\* the form of POST /settings/update: the names of the four lists, the
\* checked "active" boxes (active_<name>_day, active_<name>_night), the
\* four interval fields, the fixed-pattern box and the reference date
SettingsForms ==
    { [day_index_1_2 |-> <<"B", "A">>, day_index_3 |-> <<>>,
       night_index_1 |-> <<"A">>, night_index_2 |-> <<>>,
       active_day |-> {"A"}, active_night |-> {"A"},
       min_days_day |-> 3, min_days_night |-> NotInt,
       min_days_day_index3 |-> 2, min_gap_night_day |-> Absent,
       matsuda_enabled |-> TRUE, matsuda_reference_date |-> Absent] }

\* the exclusion file of the test fixture
NoNGDates == [global |-> {}, by_member |-> <<>>, by_period |-> <<>>]

(***************************************************************************)
(* build_schedule, called on a builder made from the three files           *)
(***************************************************************************)
\* def __init__(self, settings_path, ng_dates_path, member_stats, recent_df=None)
InitParameters == {"settings_path", "ng_dates_path", "member_stats", "recent_df"}

\* keywords of ScheduleBuilder(...) in the loop of both drivers
DriverKeywords == {"variant_index", "variant_top_k"}

\* the exception of a call of the constructor with these keywords: an
\* unexpected keyword fails the call before the body runs; the body parses
\* the reference date of an enabled fixed pattern (date.fromisoformat)
ConstructorError(keywords) ==
    IF ~ (keywords \subseteq InitParameters) THEN "TypeError"
    ELSE IF matsuda_enabled /\ settings.reference_date = AutoDate
         THEN "ValueError"
         ELSE NoError

Init ==
    /\ \/ /\ settings \in SettingsSet
          /\ ng_dates_config \in NGSet
          /\ member_stats \in StatsSet
          /\ \E p \in Periods : start_date = p.start /\ end_date = p.end
       \/ /\ settings = SingleMemberSettings
          /\ ng_dates_config = NoNGDates
          /\ member_stats = SingleMemberStats
          /\ start_date = 33 /\ end_date = 48
       \/ /\ settings = SharedPoolSettings(0)
          /\ ng_dates_config \in NGSet
          /\ member_stats = SharedPoolStats
          /\ start_date = 0 /\ end_date = 6
    /\ today = Min(Todays)
    /\ pc = "idle"
    /\ schedule = EmptySchedule
    /\ mondays = <<>>
    /\ weekends = <<>>
    /\ index = 1
    /\ trail = <<>>
    /\ returned = <<>>
    /\ raised = <<>>
    /\ init_error = NoError
    /\ variant_count = 0
    /\ schedules = <<>>
    /\ failures = <<>>
    /\ exit_code = NoExit
    /\ web_result = NoResult

\* builder = ScheduleBuilder(settings_path, ng_dates_path, member_stats);
\* builder.build_schedule(start_date, end_date) begins
StartBuild ==
    /\ pc = "idle"
    /\ ConstructorError({}) = NoError
    /\ init_error' = NoError
    /\ schedule' = EmptySchedule
    /\ mondays' = get_mondays_in_period(start_date, end_date)
    /\ weekends' = <<>>
    /\ index' = 1
    /\ trail' = <<>>
    /\ returned' = <<>>
    /\ raised' = <<>>
    /\ pc' = "night1"
    /\ UNCHANGED <<inputs, today, variant_count, schedules, failures,
                   exit_code, web_result>>

\* ScheduleBuilder(settings_path, ng_dates_path, member_stats) raises in
\* __init__: build_schedule is never called
RaiseConstructorError ==
    /\ pc = "idle"
    /\ ConstructorError({}) # NoError
    /\ init_error' = ConstructorError({})
    /\ schedule' = EmptySchedule
    /\ mondays' = <<>>
    /\ weekends' = <<>>
    /\ index' = 1
    /\ trail' = <<>>
    /\ returned' = <<>>
    /\ raised' = <<>>
    /\ UNCHANGED <<inputs, today, pc, variant_count, schedules, failures,
                   exit_code, web_result>>

\* the slot the build is about to fill, if any
SlotPending ==
    \/ pc = "night1" /\ mondays # <<>> /\ ~ is_full_holiday_week(Head(mondays))
    \/ pc = "night2"
    \/ pc = "day" /\ weekends # <<>> /\ Head(weekends) \notin global_ng_dates

SlotType == IF pc = "day" THEN "day" ELSE "night"
SlotDate == IF pc = "day" THEN Head(weekends) ELSE Head(mondays)
SlotIndex == IF pc = "day" THEN index ELSE IF pc = "night1" THEN 1 ELSE 2
SlotSchedule ==
    IF pc = "day" THEN OpenDay(schedule, SlotDate)
    ELSE OpenNight(schedule, SlotDate)
TryMatsuda ==
    pc = "night2" /\ IsMatsudaWeek(SlotDate)
\* mutant: the fixed member is placed without validation
MatsudaOk_unchecked == TRUE

MatsudaOk ==
    IsValid(matsuda_name, SlotDate, "night", 2, SlotSchedule)
SlotCandidates ==
    IF pc = "day"
    THEN IF index \in {1, 2} THEN day_index_1_2_group ELSE day_index_3_group
    ELSE IF pc = "night1" THEN night_index_1_group
    ELSE IF TryMatsuda THEN WithoutMatsuda(night_index_2_group)
    ELSE night_index_2_group
\* validated candidates of the pending slot, in pool order
SlotValid ==
    ValidCandidates(SlotCandidates, SlotDate, SlotType, SlotIndex, SlotSchedule)

\* the days the clock can show to n score computations in a row, the first
\* not before the day it returned last: the clock never runs backwards
ClockReads(n) ==
    {clock \in [1..n -> {t \in Todays : t >= today}] :
        \A i \in 1..(n - 1) : clock[i] <= clock[i + 1]}

\* the clock showing the same day to n score computations
ClockHeld(n) == [i \in 1..n |-> today]

\* the score computation of the i-th validated candidate calls date.today()
\* iff the candidate has a last date ("if last_date:")
ClockRead(i) ==
    _get_last_assignment(SlotValid[i], SlotType, SlotSchedule) # NoDate

\* the day date.today() returned last, after the score computations of a
\* selection
ClockAfter(clock) ==
    LET reads == {i \in DOMAIN clock : ClockRead(i)}
    IN IF reads = {} THEN today ELSE clock[Max(reads)]

SlotSelectedAt(clock) ==
    _select_best_candidate(SlotCandidates, SlotDate, SlotType, SlotIndex,
                           SlotSchedule, clock)

\* the selection when the day does not change during it
SlotSelected == SlotSelectedAt(ClockHeld(Len(SlotValid)))

\* the scores of the validated candidates when the day does not change
SlotScores(valid) ==
    ScoreList(valid, SlotType, SlotSchedule, ClockHeld(Len(valid)))

\* the pending slot is filled by normal selection (not by the fixed member)
NormalSelection == SlotPending /\ ~ (TryMatsuda /\ MatsudaOk)

SkipHolidayWeek ==
    /\ pc = "night1"
    /\ mondays # <<>>
    /\ is_full_holiday_week(Head(mondays))
    /\ mondays' = Tail(mondays)
    /\ UNCHANGED <<inputs, today, pc, schedule, weekends, index, driver,
                   trail, returned, raised>>

AssignNightIndex1 ==
    /\ pc = "night1"
    /\ SlotPending
    /\ \E clock \in ClockReads(Len(SlotValid)) :
          \E selected \in {SlotSelectedAt(clock)} :
              /\ selected # NoMember
              /\ schedule' = PutNight(SlotSchedule, SlotDate, 1, selected)
              /\ today' = ClockAfter(clock)
    /\ trail' = Append(trail, Slot("night", SlotDate, 1))
    /\ pc' = "night2"
    /\ UNCHANGED <<inputs, mondays, weekends, index, driver, returned, raised>>

AssignNightIndex2Fixed ==
    /\ TryMatsuda
    /\ MatsudaOk
    /\ schedule' = PutNight(SlotSchedule, SlotDate, 2, matsuda_name)
    /\ trail' = Append(trail, Slot("night", SlotDate, 2))
    /\ mondays' = Tail(mondays)
    /\ pc' = "night1"
    /\ UNCHANGED <<inputs, today, weekends, index, driver, returned, raised>>

AssignNightIndex2Substitute ==
    /\ TryMatsuda
    /\ ~ MatsudaOk
    /\ \E clock \in ClockReads(Len(SlotValid)) :
          \E selected \in {SlotSelectedAt(clock)} :
              /\ selected # NoMember
              /\ schedule' = PutNight(SlotSchedule, SlotDate, 2, selected)
              /\ today' = ClockAfter(clock)
    /\ trail' = Append(trail, Slot("night", SlotDate, 2))
    /\ mondays' = Tail(mondays)
    /\ pc' = "night1"
    /\ UNCHANGED <<inputs, weekends, index, driver, returned, raised>>

AssignNightIndex2Normal ==
    /\ pc = "night2"
    /\ ~ TryMatsuda
    /\ \E clock \in ClockReads(Len(SlotValid)) :
          \E selected \in {SlotSelectedAt(clock)} :
              /\ selected # NoMember
              /\ schedule' = PutNight(SlotSchedule, SlotDate, 2, selected)
              /\ today' = ClockAfter(clock)
    /\ trail' = Append(trail, Slot("night", SlotDate, 2))
    /\ mondays' = Tail(mondays)
    /\ pc' = "night1"
    /\ UNCHANGED <<inputs, weekends, index, driver, returned, raised>>

\* _assign_night_shifts returned; _assign_day_shifts enumerates the weekends
BeginDayShifts ==
    /\ pc = "night1"
    /\ mondays = <<>>
    /\ weekends' = get_weekends_in_period(start_date, end_date)
    /\ index' = 1
    /\ pc' = "day"
    /\ UNCHANGED <<inputs, today, schedule, mondays, driver, trail, returned,
                   raised>>

SkipGlobalNGDay ==
    /\ pc = "day"
    /\ weekends # <<>>
    /\ Head(weekends) \in global_ng_dates
    /\ weekends' = Tail(weekends)
    /\ UNCHANGED <<inputs, today, pc, schedule, mondays, index, driver, trail,
                   returned, raised>>

AssignDayIndex ==
    /\ pc = "day"
    /\ SlotPending
    /\ \E clock \in ClockReads(Len(SlotValid)) :
          \E selected \in {SlotSelectedAt(clock)} :
              /\ selected # NoMember
              /\ schedule' = PutDay(SlotSchedule, SlotDate, index, selected)
              /\ today' = ClockAfter(clock)
    /\ trail' = Append(trail, Slot("day", SlotDate, index))
    /\ IF index = 3
       THEN weekends' = Tail(weekends) /\ index' = 1
       ELSE weekends' = weekends /\ index' = index + 1
    /\ UNCHANGED <<inputs, pc, mondays, driver, returned, raised>>

\* _raise_no_candidate_error: the ValueError leaves build_schedule
RaiseNoCandidateError ==
    /\ SlotPending
    /\ ~ (TryMatsuda /\ MatsudaOk)
    /\ SlotSelected = NoMember
    /\ schedule' = SlotSchedule
    /\ raised' = <<[slot |-> Slot(SlotType, SlotDate, SlotIndex)]>>
    /\ pc' = "idle"
    /\ UNCHANGED <<inputs, today, mondays, weekends, index, trail, returned,
                   driver>>

\* build_schedule returns the schedule to its caller
ReturnSchedule ==
    /\ pc = "day"
    /\ weekends = <<>>
    /\ returned' = <<[schedule |-> schedule]>>
    /\ pc' = "idle"
    /\ UNCHANGED <<inputs, today, schedule, mondays, weekends, index, trail,
                   raised, driver>>

(***************************************************************************)
(* Writers of the files: web/services.py and web/routes.py.  Each is one   *)
(* request, handled whenever no build is running; a date string is its day *)
(* number, a sorted list without duplicates is a set.                      *)
(***************************************************************************)
\* a request is handled when no build and no driver is running
CanEdit == pc = "idle"

Without(f, k) == [x \in (DOMAIN f) \ {k} |-> f[x]]

\* the files are rewritten: what the last build gave came from other files
Saved ==
    /\ returned' = <<>>
    /\ raised' = <<>>
    /\ schedule' = EmptySchedule
    /\ mondays' = <<>>
    /\ weekends' = <<>>
    /\ index' = 1
    /\ trail' = <<>>
    /\ init_error' = NoError
    /\ UNCHANGED <<start_date, end_date, today, pc, variant_count, schedules,
                   failures, exit_code, web_result>>

save_settings ==
    /\ CanEdit
    /\ \E data \in SavedSettings : settings' = data
    /\ Saved
    /\ UNCHANGED <<ng_dates_config, member_stats>>

save_ng_dates ==
    /\ CanEdit
    /\ \E data \in SavedNGDates : ng_dates_config' = data
    /\ Saved
    /\ UNCHANGED <<settings, member_stats>>

add_global_ng_date ==
    /\ CanEdit
    /\ \E date_str \in EditDates :
          /\ date_str \notin ng_dates_config.global
          /\ ng_dates_config' =
                [ng_dates_config EXCEPT !.global = @ \cup {date_str}]
    /\ Saved
    /\ UNCHANGED <<settings, member_stats>>

remove_global_ng_date ==
    /\ CanEdit
    /\ \E date_str \in EditDates :
          /\ date_str \in ng_dates_config.global
          /\ ng_dates_config' =
                [ng_dates_config EXCEPT !.global = @ \ {date_str}]
    /\ Saved
    /\ UNCHANGED <<settings, member_stats>>

add_member_ng_date ==
    /\ CanEdit
    /\ \E member \in EditMembers, date_str \in EditMemberDates :
          LET by_member == ng_dates_config.by_member
              dates == IF member \in DOMAIN by_member THEN by_member[member]
                       ELSE {}
          IN /\ date_str \notin dates
             /\ ng_dates_config' =
                   [ng_dates_config EXCEPT
                       !.by_member = (member :> (dates \cup {date_str})) @@ @]
    /\ Saved
    /\ UNCHANGED <<settings, member_stats>>

remove_member_ng_date ==
    /\ CanEdit
    /\ \E member \in EditMembers, date_str \in EditMemberDates :
          LET by_member == ng_dates_config.by_member
          IN /\ member \in DOMAIN by_member
             /\ date_str \in by_member[member]
             /\ ng_dates_config' =
                   [ng_dates_config EXCEPT
                       !.by_member =
                           IF by_member[member] = {date_str}
                           THEN Without(@, member)
                           ELSE [@ EXCEPT ![member] = @ \ {date_str}]]
    /\ Saved
    /\ UNCHANGED <<settings, member_stats>>

add_period_ng ==
    /\ CanEdit
    /\ \E member \in EditPeriodMembers, entry \in EditPeriods :
          LET by_period == ng_dates_config.by_period
              periods == IF member \in DOMAIN by_period THEN by_period[member]
                         ELSE {}
          IN /\ entry \notin periods
             /\ ng_dates_config' =
                   [ng_dates_config EXCEPT
                       !.by_period = (member :> (periods \cup {entry})) @@ @]
    /\ Saved
    /\ UNCHANGED <<settings, member_stats>>

remove_period_ng ==
    /\ CanEdit
    /\ \E member \in EditPeriodMembers, entry \in EditPeriods :
          LET by_period == ng_dates_config.by_period
              kept == {p \in by_period[member] : p.start # entry.start}
          IN /\ member \in DOMAIN by_period
             /\ ng_dates_config' =
                   [ng_dates_config EXCEPT
                       !.by_period = IF kept = {} THEN Without(@, member)
                                     ELSE [@ EXCEPT ![member] = kept]]
    /\ Saved
    /\ UNCHANGED <<settings, member_stats>>

\* routes.update_member_attributes: the overrides of every entry of the member
UpdateEntries(group, name, day, night) ==
    [k \in DOMAIN group |->
        IF group[k].name = name
        THEN [group[k] EXCEPT
                 !.min_days_day = IF day = NotInData THEN @ ELSE day,
                 !.min_days_night = IF night = NotInData THEN @ ELSE night]
        ELSE group[k]]

update_member_attributes ==
    /\ CanEdit
    /\ \E data \in MemberUpdates :
          /\ \E k \in DOMAIN AllEntries : AllEntries[k].name = data.name
          /\ settings' =
                [settings EXCEPT
                    !.day12 = UpdateEntries(@, data.name, data.min_days_day,
                                            data.min_days_night),
                    !.day3 = UpdateEntries(@, data.name, data.min_days_day,
                                           data.min_days_night),
                    !.night1 = UpdateEntries(@, data.name, data.min_days_day,
                                             data.min_days_night),
                    !.night2 = UpdateEntries(@, data.name, data.min_days_day,
                                             data.min_days_night)]
    /\ Saved
    /\ UNCHANGED <<ng_dates_config, member_stats>>

\* process_group: an entry per listed name, a copy of the entry the file
\* holds for the name (the last one, in the order day index 1-2, day index
\* 3, night index 1, night index 2) with name and active set
process_group(names, active) ==
    [k \in DOMAIN names |->
        LET having == {j \in DOMAIN AllEntries : AllEntries[j].name = names[k]}
            member_conf == IF having = {} THEN Entry(names[k])
                           ELSE AllEntries[Max(having)]
        IN [member_conf EXCEPT
               !.name = names[k],
               !.active = IF names[k] \in active THEN "true" ELSE "false"]]

\* the interval fields in the order the try block converts them; the first
\* value int() rejects ends the block (except ValueError: pass)
FormIntervals(form) ==
    <<form.min_days_day, form.min_days_night, form.min_days_day_index3,
      form.min_gap_night_day>>

IntervalAfter(form, k, current) ==
    LET fields == FormIntervals(form)
    IN IF fields[k] \notin {Absent, NotInt}
          /\ \A j \in 1..(k - 1) : fields[j] # NotInt
       THEN fields[k]
       ELSE current

\* routes.update_settings: the groups from the form, the intervals and the
\* fixed pattern from its fields, everything else as the file holds it
update_settings ==
    /\ CanEdit
    /\ \E form_data \in SettingsForms :
          settings' =
             [settings EXCEPT
                 !.day12 = process_group(form_data.day_index_1_2,
                                         form_data.active_day),
                 !.day3 = process_group(form_data.day_index_3,
                                        form_data.active_day),
                 !.night1 = process_group(form_data.night_index_1,
                                          form_data.active_night),
                 !.night2 = process_group(form_data.night_index_2,
                                          form_data.active_night),
                 !.min_days_day = IntervalAfter(form_data, 1, @),
                 !.min_days_night = IntervalAfter(form_data, 2, @),
                 !.min_days_day_index3 = IntervalAfter(form_data, 3, @),
                 !.night_to_day_gap = IntervalAfter(form_data, 4, @),
                 !.matsuda_enabled = form_data.matsuda_enabled,
                 !.reference_date =
                     IF form_data.matsuda_reference_date = Absent THEN @
                     ELSE form_data.matsuda_reference_date]
    /\ Saved
    /\ UNCHANGED <<ng_dates_config, member_stats>>

(***************************************************************************)
(* config_generator.py: settings.yaml written from the history             *)
(***************************************************************************)
\* the names in the order sorted(..., key=lambda x: x['name']) gives them
NameOrder == <<"A", "B", "C", "D", "E", "F", "G", matsuda_name>>

SortedByName(names) ==
    LET keep == SortedSeq({k \in DOMAIN NameOrder : NameOrder[k] \in names})
    IN [i \in 1..Len(keep) |-> Entry(NameOrder[keep[i]])]

\* ConfigGenerator.generate_settings_from_history(member_stats): a member
\* goes to the day group and to the night group of the highest index the
\* history shows; the constraints are those of the template
generate_settings_from_history(stats) ==
    LET day(m) == stats[m].day_count > 0
        night(m) == stats[m].night_count > 0
    IN [day12 |-> SortedByName({m \in DOMAIN stats :
                      /\ day(m)
                      /\ 3 \notin stats[m].day_indexes
                      /\ stats[m].day_indexes \cap {1, 2} # {}}),
        day3 |-> SortedByName({m \in DOMAIN stats :
                      day(m) /\ 3 \in stats[m].day_indexes}),
        night1 |-> SortedByName({m \in DOMAIN stats :
                      /\ night(m)
                      /\ 2 \notin stats[m].night_indexes
                      /\ 1 \in stats[m].night_indexes}),
        night2 |-> SortedByName({m \in DOMAIN stats :
                      night(m) /\ 2 \in stats[m].night_indexes}),
        min_days_day |-> 14, min_days_night |-> 21,
        min_days_day_index3 |-> 7, night_to_day_gap |-> 7,
        soft |-> Soft(TRUE, 3, 7, 30, 15),
        matsuda_enabled |-> TRUE,
        reference_date |-> IF matsuda_name \in DOMAIN stats
                           THEN stats[matsuda_name].last_date
                           ELSE AutoDate]

\* auto_generate_config(member_stats): save_settings of the generated
\* settings; generate_ng_dates_template returns at once, ng_dates.yaml
\* being there
auto_generate_config ==
    /\ CanEdit
    /\ settings' = generate_settings_from_history(member_stats)
    /\ Saved
    /\ UNCHANGED <<ng_dates_config, member_stats>>

\* routes.upload_csv: the history the next MemberStats are computed from
upload_csv ==
    /\ CanEdit
    /\ \E stats \in UploadedStats : member_stats' = stats
    /\ Saved
    /\ UNCHANGED <<settings, ng_dates_config>>

(***************************************************************************)
(* The drivers: main() of main.py and web.services.run_schedule_generation *)
(***************************************************************************)
\* a driver is started when no build and no other driver is running
DriverTurn == pc = "idle"

\* main(): the first pass of the loop raises at the constructor, outside the
\* inner try; "except Exception" logs the error and calls sys.exit(1)
main ==
    /\ DriverTurn
    /\ \E variants \in 1..MaxVariants, top_k \in 1..MaxTopK :
          variant_count' = variants
    /\ ConstructorError(DriverKeywords) = "TypeError"
    /\ schedules' = <<>>
    /\ failures' = <<>>
    /\ exit_code' = 1
    /\ pc' = "exited"
    /\ UNCHANGED <<files, start_date, end_date, today,
                   schedule, mondays, weekends, index, trail, returned, raised,
                   init_error, web_result>>

\* run_schedule_generation: the same loop; "except Exception" returns
\* (False, None, "Unexpected Error: ...")
run_schedule_generation ==
    /\ DriverTurn
    /\ \E variants \in 1..MaxVariants, top_k \in 1..MaxTopK :
          variant_count' = variants
    /\ ConstructorError(DriverKeywords) = "TypeError"
    /\ schedules' = <<>>
    /\ failures' = <<>>
    /\ web_result' = [success |-> FALSE, result_data |-> "None",
                      message |-> "Unexpected Error"]
    /\ pc' = "responded"
    /\ UNCHANGED <<files, start_date, end_date, today,
                   schedule, mondays, weekends, index, trail, returned, raised,
                   init_error, exit_code>>

\* the next process or request starts with fresh locals
StartRun ==
    /\ pc \in {"exited", "responded"}
    /\ variant_count' = 0
    /\ schedules' = <<>>
    /\ failures' = <<>>
    /\ exit_code' = NoExit
    /\ web_result' = NoResult
    /\ pc' = "idle"
    /\ UNCHANGED <<files, start_date, end_date, today,
                   schedule, mondays, weekends, index, trail, returned, raised,
                   init_error>>

Next ==
    \/ StartBuild
    \/ RaiseConstructorError
    \/ SkipHolidayWeek
    \/ AssignNightIndex1
    \/ AssignNightIndex2Fixed
    \/ AssignNightIndex2Substitute
    \/ AssignNightIndex2Normal
    \/ BeginDayShifts
    \/ SkipGlobalNGDay
    \/ AssignDayIndex
    \/ RaiseNoCandidateError
    \/ ReturnSchedule
    \/ save_settings
    \/ save_ng_dates
    \/ add_global_ng_date
    \/ remove_global_ng_date
    \/ add_member_ng_date
    \/ remove_member_ng_date
    \/ add_period_ng
    \/ remove_period_ng
    \/ update_member_attributes
    \/ update_settings
    \/ auto_generate_config
    \/ upload_csv
    \/ main
    \/ run_schedule_generation
    \/ StartRun

Spec == Init /\ [][Next]_vars

TypeOK ==
    /\ pc \in {"idle", "night1", "night2", "day", "exited", "responded"}
    /\ variant_count \in 0..MaxVariants
    /\ today \in Todays
    /\ Len(returned) + Len(raised) <= 1
    /\ index \in 1..3
    /\ exit_code \in {NoExit, 0, 1}
    /\ init_error \in {NoError, "ValueError"}

(***************************************************************************)
(* Properties                                                              *)
(***************************************************************************)
AllNames == {AllEntries[k].name : k \in DOMAIN AllEntries} \cup {matsuda_name}

MembersAt(part, d) == {part[d][i] : i \in DOMAIN part[d]}

IndexesOf(part, d, member) == {i \in DOMAIN part[d] : part[d][i] = member}

Complete(s) ==
    /\ \A d \in DOMAIN s.day :
          DOMAIN s.day[d] = {1, 2, 3} /\ MembersAt(s.day, d) \subseteq AllNames
    /\ \A w \in DOMAIN s.night :
          DOMAIN s.night[w] = {1, 2} /\ MembersAt(s.night, w) \subseteq AllNames

\* C1 (Completeness): every schedule a build returned has, for each of its
\* day dates, exactly the indexes 1, 2, 3 each holding a member, and for
\* each of its night weeks exactly the indexes 1, 2 each holding a member.
C1_Completeness ==
    \A k \in DOMAIN returned : Complete(returned[k].schedule)

C1_Witness ==
    \E k \in DOMAIN returned :
        /\ Cardinality(DOMAIN returned[k].schedule.day) >= 2
        /\ Cardinality(DOMAIN returned[k].schedule.night) >= 2

\* C2 (No-overlap): in every returned schedule no member holds both a day
\* date d and a night week w with w <= d <= w + 6.
C2_NoOverlap ==
    \A k \in DOMAIN returned :
        LET s == returned[k].schedule
        IN \A d \in DOMAIN s.day, w \in DOMAIN s.night :
              (w <= d /\ d <= w + 6)
                  => MembersAt(s.day, d) \cap MembersAt(s.night, w) = {}

\* a returned schedule where a night worker of a week is also a day worker
\* of the same build, and the week contains a generated day date
C2_Witness ==
    \E k \in DOMAIN returned :
        LET s == returned[k].schedule
        IN \E d \in DOMAIN s.day, w \in DOMAIN s.night :
              /\ w <= d /\ d <= w + 6
              /\ \E m \in MembersAt(s.night, w) :
                    /\ AssignedDates(s.day, m) # {}
                    /\ m \in Range(day_index_1_2_group)

\* C3 (Index-track): in every returned schedule a member whose historical
\* day indexes contain 1 or 2 never holds day index 3, one whose historical
\* day indexes contain 3 never holds day index 1 or 2, one whose historical
\* night indexes contain 1 never holds night index 2 and one whose
\* historical night indexes contain 2 never holds night index 1; the fixed
\* biweekly member included.
C3_IndexTrack ==
    \A k \in DOMAIN returned :
        LET s == returned[k].schedule
        IN /\ \A d \in DOMAIN s.day : \A i \in DOMAIN s.day[d] :
                 LET m == s.day[d][i]
                 IN m \in DOMAIN member_stats =>
                      LET h == member_stats[m].day_indexes
                      IN /\ (h \cap {1, 2} # {}) => i # 3
                         /\ (3 \in h) => i \notin {1, 2}
           /\ \A w \in DOMAIN s.night : \A i \in DOMAIN s.night[w] :
                 LET m == s.night[w][i]
                 IN m \in DOMAIN member_stats =>
                      LET h == member_stats[m].night_indexes
                      IN /\ (1 \in h) => i # 2
                         /\ (2 \in h) => i # 1

\* a returned schedule with a fixed-member week although the fixed member
\* has held night index 1, and with day dates although a member of the
\* day index 1-2 pool has held day index 3
C3_Witness ==
    \E k \in DOMAIN returned :
        LET s == returned[k].schedule
        IN /\ \E w \in DOMAIN s.night : IsMatsudaWeek(w)
           /\ matsuda_name \in DOMAIN member_stats
           /\ 1 \in member_stats[matsuda_name].night_indexes
           /\ DOMAIN s.day # {}
           /\ \E m \in Range(day_index_1_2_group) :
                 m \in DOMAIN member_stats /\ 3 \in member_stats[m].day_indexes

\* the per-member override of a field as the settings state it
OverrideOf(m, field) ==
    {AllEntries[k][field] : k \in {j \in DOMAIN AllEntries :
                                    AllEntries[j].name = m
                                    /\ AllEntries[j][field] # Unset}}

EffectiveMinDaysDay(m, i) ==
    IF i = 3 THEN GetOr(settings.min_days_day_index3, DefaultMinDaysDayIndex3)
    ELSE IF OverrideOf(m, "min_days_day") # {}
    THEN CHOOSE v \in OverrideOf(m, "min_days_day") : TRUE
    ELSE GetOr(settings.min_days_day, DefaultMinDaysDay)

EffectiveMinDaysNight(m) ==
    IF OverrideOf(m, "min_days_night") # {}
    THEN CHOOSE v \in OverrideOf(m, "min_days_night") : TRUE
    ELSE GetOr(settings.min_days_night, DefaultMinDaysNight)

\* C4 (Minimum day interval): in every returned schedule two day
\* assignments of one member at d1 < d2 are at least M days apart, M being
\* the index-3 minimum when the assignment at d2 is at index 3 and the
\* member's own min_days_day, else the default day minimum, otherwise.
C4_MinIntervalDay ==
    \A k \in DOMAIN returned :
        LET s == returned[k].schedule
        IN \A d1 \in DOMAIN s.day, d2 \in DOMAIN s.day :
              d1 < d2 =>
                \A m \in MembersAt(s.day, d1) \cap MembersAt(s.day, d2) :
                    \A i \in IndexesOf(s.day, d2, m) :
                        d2 - d1 >= EffectiveMinDaysDay(m, i)

\* a member works two day dates exactly a multi-day minimum apart
C4_Witness ==
    \E k \in DOMAIN returned :
        LET s == returned[k].schedule
        IN \E d1 \in DOMAIN s.day, d2 \in DOMAIN s.day :
              /\ d1 < d2
              /\ \E m \in MembersAt(s.day, d1) \cap MembersAt(s.day, d2) :
                    \E i \in IndexesOf(s.day, d2, m) :
                        /\ i # 3
                        /\ d2 - d1 = EffectiveMinDaysDay(m, i)
                        /\ d2 - d1 >= 7

\* C5 (Minimum night interval): in every returned schedule two night weeks
\* of one member, the fixed biweekly member included, start at least that
\* member's min_days_night (else the default night minimum) days apart.
C5_MinIntervalNight ==
    \A k \in DOMAIN returned :
        LET s == returned[k].schedule
        IN \A w1 \in DOMAIN s.night, w2 \in DOMAIN s.night :
              w1 < w2 =>
                \A m \in MembersAt(s.night, w1) \cap MembersAt(s.night, w2) :
                    w2 - w1 >= EffectiveMinDaysNight(m)

\* the fixed member works two weeks exactly its minimum apart, the later one
\* being a week of the fixed pattern
C5_Witness ==
    \E k \in DOMAIN returned :
        LET s == returned[k].schedule
        IN \E w1 \in DOMAIN s.night, w2 \in DOMAIN s.night :
              /\ w1 < w2
              /\ IsMatsudaWeek(w2)
              /\ matsuda_name \in MembersAt(s.night, w1) \cap MembersAt(s.night, w2)
              /\ w2 - w1 = EffectiveMinDaysNight(matsuda_name)

\* C6 (Night-to-day gap), as claimed: in every returned schedule no member
\* has a day date d and a night week w of its own with
\* 1 <= d - (w + 6) <= N, N = constraints.night_to_day_gap.min_days.
C6_NightToDayGapInclusive ==
    \A k \in DOMAIN returned :
        LET s == returned[k].schedule
            gap == GetOr(settings.night_to_day_gap, DefaultNightToDayGap)
        IN \A d \in DOMAIN s.day, w \in DOMAIN s.night :
              (1 <= d - (w + 6) /\ d - (w + 6) <= gap)
                  => MembersAt(s.day, d) \cap MembersAt(s.night, w) = {}

Excluded(m, d) ==
    \/ m \in DOMAIN ng_dates_config.by_member
         /\ d \in ng_dates_config.by_member[m]
    \/ m \in DOMAIN ng_dates_config.by_period
         /\ \E p \in ng_dates_config.by_period[m] : p.start <= d /\ d <= p.end

\* C7 (Personal exclusion): in every returned schedule no member holds a
\* day date, or a night week starting on a date, that is one of the
\* member's by_member dates or lies in one of its by_period ranges, bounds
\* included.
C7_PersonalExclusion ==
    \A k \in DOMAIN returned :
        LET s == returned[k].schedule
        IN /\ \A d \in DOMAIN s.day : \A m \in MembersAt(s.day, d) : ~ Excluded(m, d)
           /\ \A w \in DOMAIN s.night : \A m \in MembersAt(s.night, w) : ~ Excluded(m, w)

\* a returned schedule with a day date excluded for a member of the day
\* index 1-2 pool, on the first day of a range
C7_Witness ==
    \E k \in DOMAIN returned :
        LET s == returned[k].schedule
        IN \E d \in DOMAIN s.day : \E m \in Range(day_index_1_2_group) :
              /\ Excluded(m, d)
              /\ m \in DOMAIN ng_dates_config.by_period
              /\ \E p \in ng_dates_config.by_period[m] : p.start = d

\* the pool the pending slot is filled from, the fixed member first in a
\* week of the fixed pattern
SlotPool ==
    IF TryMatsuda THEN <<matsuda_name>> \o SlotCandidates ELSE SlotCandidates

ZeroCandidates ==
    /\ SlotPending
    /\ \A m \in Range(SlotPool) :
          ~ IsValid(m, SlotDate, SlotType, SlotIndex, SlotSchedule)

\* C8 (Failure atomicity): a step taken when the pending slot has no
\* candidate passing validation raises the unfillable-slot error for that
\* slot, ends the build and returns nothing; every schedule a caller has
\* received is complete and comes from a build that did not raise.
C8_FailureAtomicity ==
    [][ /\ ZeroCandidates =>
              /\ raised' = <<[slot |-> Slot(SlotType, SlotDate, SlotIndex)]>>
              /\ returned' = <<>>
              /\ pc' = "idle"
        /\ \A k \in DOMAIN returned' :
              /\ Complete(returned'[k].schedule)
              /\ raised' = <<>>
      ]_vars

\* a build has raised after filling some slots; its half-filled schedule is
\* not among the schedules returned
C8_Witness ==
    /\ pc = "idle"
    /\ raised # <<>>
    /\ trail # <<>>
    /\ ~ Complete(schedule)
    /\ \A k \in DOMAIN returned : returned[k].schedule # schedule

\* C9 (Determinism), as claimed: the score of a candidate depends only on
\* the member, the shift type, the slot, the in-progress schedule and the
\* stats, so whatever day the clock shows when a slot is filled every
\* validated candidate gets the same score and the slot the same member;
\* builds on the same files and the same period hence return the same
\* schedule, whenever they are executed.
C9_Determinism ==
    NormalSelection =>
        \A valid \in {SlotValid} : \A t \in Todays :
            LET clock == [i \in DOMAIN valid |-> t]
            IN /\ \A i \in DOMAIN valid :
                     FloatEqual(ScoreList(valid, SlotType, SlotSchedule, clock)[i],
                                SlotScores(valid)[i])
               /\ SlotSelectedAt(clock) = SlotSelected

Attempted ==
    {schedules[k].variant_index : k \in DOMAIN schedules}
        \cup {failures[k].variant_index : k \in DOMAIN failures}

\* C10 (Variant failure isolation), as claimed: a finished run of main()
\* with variant_count >= 2 has attempted every variant index
\* 0..variant_count-1, each recorded as a schedule or as a failure; the run
\* succeeds iff some variant returned a schedule; with variant_count = 1 the
\* run fails only through the failure of its single build.
C10_VariantIsolation ==
    pc = "exited" =>
        /\ exit_code \in {0, 1}
        /\ exit_code = 0 <=> schedules # <<>>
        /\ variant_count >= 2 =>
              /\ Attempted = 0..(variant_count - 1)
              /\ Len(schedules) + Len(failures) = variant_count
        /\ variant_count = 1 => (exit_code = 1 <=> failures # <<>>)

\* C11 (Fixed biweekly placement and substitution): a step taken at night
\* index 2 of an even-parity week with the fixed pattern enabled gives the
\* slot to the fixed member iff the fixed member passes every hard
\* constraint against the schedule holding that week's index 1; otherwise
\* the slot goes to the normal selection over the night index 2 group
\* without the fixed member, and the build fails only if that reduced pool
\* has no valid candidate.
C11_FixedPlacement ==
    [][ (pc = "night2" /\ matsuda_enabled
           /\ check_matsuda_biweekly(Head(mondays), matsuda_reference_date)) =>
          LET w == Head(mondays)
              reduced == SelectSeq(night_index_2_group,
                                   LAMBDA m : m # matsuda_name)
              fixed_ok == validate_all_constraints(matsuda_name, w, "night", 2,
                                                   schedule, member_stats) = <<>>
              valid == ValidCandidates(reduced, w, "night", 2, schedule)
              picks == {_select_best_candidate(reduced, w, "night", 2,
                                               schedule, clock) :
                           clock \in ClockReads(Len(valid))}
              failed == raised' = <<[slot |-> Slot("night", w, 2)]>>
          IN /\ fixed_ok =>
                  /\ schedule'.night[w][2] = matsuda_name
                  /\ raised' = raised
             /\ ~ fixed_ok =>
                  /\ NoMember \notin picks =>
                        /\ schedule'.night[w][2] \in picks
                        /\ schedule'.night[w][2] # matsuda_name
                        /\ raised' = raised
                  /\ NoMember \in picks =>
                        /\ failed
                        /\ 2 \notin DOMAIN schedule'.night[w]
                        /\ \A m \in Range(reduced) :
                              ~ IsValid(m, w, "night", 2, schedule)
      ]_vars

\* a returned schedule whose even-parity week of an enabled pattern went to
\* a substitute, the fixed member having failed a hard constraint there
C11_Witness ==
    \E k \in DOMAIN returned :
        LET s == returned[k].schedule
        IN /\ matsuda_enabled
           /\ \E w \in DOMAIN s.night :
                 /\ check_matsuda_biweekly(w, matsuda_reference_date)
                 /\ s.night[w][2] # matsuda_name
                 /\ s.night[w][2] # NoMember

\* C12 (Parity scenario), as claimed: with reference_date 2025-02-20 the
\* week starting 2025-03-03 (day 14) is an even-parity week, where the
\* fixed member is attempted first at night index 2, and the week starting
\* 2025-02-24 (day 7) is an odd-parity week, where the normal pool is used
\* directly.
C12_ParityScenario ==
    (pc = "night2" /\ matsuda_enabled
        /\ matsuda_reference_date = DefaultReferenceDate) =>
        /\ Head(mondays) = 14 => TryMatsuda
        /\ Head(mondays) = 7 => ~ TryMatsuda

\* C13 (Day slot generation): in every returned schedule a date is a key
\* of the day half iff it lies in the period, is a Saturday or a Sunday
\* and is not in the global exclusion list.
C13_DaySlots ==
    \A k \in DOMAIN returned :
        DOMAIN returned[k].schedule.day =
            {d \in start_date..end_date :
                d % 7 \in {5, 6} /\ d \notin ng_dates_config.global}

\* a returned schedule of a period that ends on a Sunday holding a day
\* slot and contains a globally excluded weekend date
C13_Witness ==
    \E k \in DOMAIN returned :
        /\ end_date \in DOMAIN returned[k].schedule.day
        /\ \E d \in start_date..end_date :
              d % 7 \in {5, 6} /\ d \in ng_dates_config.global

\* C14 (Night slot generation): in every returned schedule a date is a key
\* of the night half iff it is a Monday of the period and at least one of
\* its five weekdays is not in the global exclusion list.
C14_NightSlots ==
    \A k \in DOMAIN returned :
        DOMAIN returned[k].schedule.night =
            {w \in start_date..end_date :
                /\ w % 7 = 0
                /\ \E i \in 0..4 : (w + i) \notin ng_dates_config.global}

\* a returned schedule of a period with a Monday whose five weekdays are all
\* globally excluded and another Monday that has its night slot
C14_Witness ==
    \E k \in DOMAIN returned :
        /\ \E w \in start_date..end_date :
              /\ w % 7 = 0
              /\ \A i \in 0..4 : (w + i) \in ng_dates_config.global
        /\ DOMAIN returned[k].schedule.night # {}

\* the members a group of the settings lists with active = true
ActiveMembersOf(group) ==
    {group[k].name : k \in {j \in DOMAIN group : group[j].active # "false"}}

\* C15 (Group membership of assignments), as claimed: in every returned
\* schedule the member at day index 1 or 2 is an active member of the day
\* index_1_2_group, the member at day index 3 of the day index_3_group, the
\* member at night index 1 of the night index_1_group and the member at
\* night index 2 of the night index_2_group.
C15_GroupMembership ==
    \A k \in DOMAIN returned :
        LET s == returned[k].schedule
        IN /\ \A d \in DOMAIN s.day :
                 /\ s.day[d][1] \in ActiveMembersOf(settings.day12)
                 /\ s.day[d][2] \in ActiveMembersOf(settings.day12)
                 /\ s.day[d][3] \in ActiveMembersOf(settings.day3)
           /\ \A w \in DOMAIN s.night :
                 /\ s.night[w][1] \in ActiveMembersOf(settings.night1)
                 /\ s.night[w][2] \in ActiveMembersOf(settings.night2)

\* the fixed member holds night index 2 of a returned schedule although its
\* only entry in the night index_2_group is inactive
C15_FixedMemberInactive ==
    \E k \in DOMAIN returned :
        \E w \in DOMAIN returned[k].schedule.night :
            /\ returned[k].schedule.night[w][2] = matsuda_name
            /\ matsuda_name \notin ActiveMembersOf(settings.night2)

\* the rules a candidate violates at a slot, each rule evaluated on its own
ViolatedRules(m, d, t, i, s) ==
    {r \in {"index", "overlap", "night_to_day_gap", "min_interval", "ng_date"} :
        \/ r = "index" /\ t = "day"
             /\ ~ check_day_index_constraint(m, i, member_stats)
        \/ r = "index" /\ t = "night"
             /\ ~ check_night_index_constraint(m, i, member_stats)
        \/ r = "overlap" /\ ~ check_overlap_constraint(m, d, t, s)
        \/ r = "night_to_day_gap" /\ t = "day" /\ ~ check_night_to_day_gap(m, d, s)
        \/ r = "min_interval" /\ t = "day" /\ ~ check_min_interval_day(m, d, i, s)
        \/ r = "min_interval" /\ t = "night" /\ ~ check_min_interval_night(m, d, s)
        \/ r = "ng_date" /\ ~ check_ng_dates(m, d)}

\* C16 (validate accumulates without short-circuit): for every member of
\* the pool of a pending slot, validate_all_constraints is ok iff its reason
\* list is empty, and the list holds exactly one reason per violated rule
\* among index-track, overlap, night-to-day gap (day slots only), minimum
\* interval and personal exclusion, whatever earlier rules are violated.
C16_ValidateAccumulates ==
    SlotPending =>
        \A m \in Range(SlotPool) :
            LET errors == validate_all_constraints(m, SlotDate, SlotType,
                                                   SlotIndex, SlotSchedule,
                                                   member_stats)
                violated == ViolatedRules(m, SlotDate, SlotType, SlotIndex,
                                          SlotSchedule)
            IN /\ IsValid(m, SlotDate, SlotType, SlotIndex, SlotSchedule)
                    <=> errors = <<>>
               /\ Len(errors) = Cardinality(violated)
               /\ Range(errors) = violated

\* a candidate of a pending day slot violates the index-track rule and two
\* later rules at once
C16_Witness ==
    /\ SlotPending
    /\ pc = "day"
    /\ \E m \in Range(SlotPool) :
          LET violated == ViolatedRules(m, SlotDate, SlotType, SlotIndex,
                                        SlotSchedule)
          IN "index" \in violated /\ Cardinality(violated) >= 3

\* C17 (Global exclusion in the checker), as claimed: check_ng_dates is
\* not-OK for every member when the target date is in the global exclusion
\* list; so no candidate of a slot on such a date passes it.
C17_GlobalExclusion ==
    (SlotPending /\ SlotDate \in ng_dates_config.global) =>
        \A m \in Range(SlotPool) : ~ check_ng_dates(m, SlotDate)

\* the schedule with a pool member put on the pending day slot, whether or
\* not the member passes validation
Placed(m) == PutDay(SlotSchedule, SlotDate, SlotIndex, m)

\* the pairs (member, date) of a day assignment inside a night week of the
\* same member
OverlapPairs(s) ==
    {[member |-> s.day[d][i], date |-> d] :
        <<d, i>> \in {x \in (DOMAIN s.day) \X {1, 2, 3} :
                        /\ x[2] \in DOMAIN s.day[x[1]]
                        /\ \E w \in DOMAIN s.night :
                              /\ w <= x[1] /\ x[1] <= w + 6
                              /\ s.day[x[1]][x[2]] \in MembersAt(s.night, w)}}

\* a returned schedule with a member of the day index 1-2 pool put on index 1
\* of one of its day dates in place of the member the build chose
Replaced(s, d, m) == PutDay(s, d, 1, m)

\* C18 (Analyzer as regression oracle): the overlaps list of every returned
\* schedule is empty; and on any schedule, here the in-progress schedule
\* with any pool member on the pending day slot and the returned schedule
\* with any pool member put on a day date, the analyzer reports
\* (member, date) exactly when the member has a day assignment on the date
\* and a night assignment in a week w with w <= date <= w + 6, which is
\* when check_overlap_constraint rejects the placement.
C18_AnalyzerOracle ==
    /\ \A k \in DOMAIN returned :
          LET s == returned[k].schedule
          IN /\ _check_overlaps(s) = <<>>
             /\ \A d \in DOMAIN s.day : \A m \in Range(day_index_1_2_group) :
                   Range(_check_overlaps(Replaced(s, d, m)))
                       = OverlapPairs(Replaced(s, d, m))
    /\ (SlotPending /\ pc = "day") =>
          \A m \in Range(SlotPool) :
              /\ Range(_check_overlaps(Placed(m))) = OverlapPairs(Placed(m))
              /\ ([member |-> m, date |-> SlotDate]
                    \in Range(_check_overlaps(Placed(m))))
                   <=> ~ check_overlap_constraint(m, SlotDate, "day", SlotSchedule)

\* a returned schedule with a night worker who also works day dates, for
\* which the analyzer reports an overlap as soon as a night worker is put on
\* the Sunday of its night week
C18_Witness ==
    \E k \in DOMAIN returned :
        LET s == returned[k].schedule
        IN /\ \E w \in DOMAIN s.night : \E m \in MembersAt(s.night, w) :
                 AssignedDates(s.day, m) # {}
           /\ \E d \in DOMAIN s.day : \E m \in Range(day_index_1_2_group) :
                 /\ d % 7 = 6
                 /\ [member |-> m, date |-> d]
                       \in Range(_check_overlaps(Replaced(s, d, m)))

\* the consecutive intervals of a member that are closer than the threshold
ClosePairs(s, limit) ==
    LET a == Assignments(s)
    IN {[member |-> a[i].member,
         from |-> [type |-> a[i].type, start |-> a[i].start],
         to |-> [type |-> a[j].type, start |-> a[j].start]] :
          <<i, j>> \in {x \in (DOMAIN a) \X (DOMAIN a) :
              /\ a[x[1]].member = a[x[2]].member
              /\ a[x[1]].start < a[x[2]].start
              /\ \A k \in DOMAIN a :
                    a[k].member = a[x[1]].member =>
                        ~ (a[x[1]].start < a[k].start /\ a[k].start < a[x[2]].start)
              /\ 0 < a[x[2]].start - a[x[1]].end
              /\ a[x[2]].start - a[x[1]].end < limit}}

\* C19 (Analyzer close intervals), as claimed: for every returned schedule
\* close_intervals has an entry for two consecutive intervals of a member
\* (day = [d, d], night = [w, w + 6], sorted by start) iff their gap, next
\* start minus previous end, satisfies 0 < gap < 7.
C19_CloseIntervalsStrict ==
    \A k \in DOMAIN returned :
        LET entries == _check_close_intervals(returned[k].schedule)
        IN {[member |-> e.member, from |-> e.from, to |-> e.to] :
               e \in Range(entries)}
             = ClosePairs(returned[k].schedule, threshold_days)

\* C20 (Score ordering by load): whenever a slot is scored, on whatever
\* day, a pool member unknown to MemberStats with no assignment of the
\* slot's shift type in the in-progress schedule scores exactly 1.0
\* (0.5 + 0.3 + 0.2), and a member with at least one such assignment scores
\* strictly less than 1.0.
C20_ScoreByLoad ==
    SlotPending =>
        \A m \in Range(SlotPool) : \A now \in Todays :
            LET score == _calculate_priority_score(m, SlotType, SlotSchedule,
                                                   now)
                assigned == AssignedDates(SlotSchedule[SlotType], m) # {}
            IN /\ (m \notin DOMAIN member_stats /\ ~ assigned)
                    => /\ FloatEqual(score, FloatOne)
                       /\ FloatEqual(score,
                                     FloatAdd(FloatAdd(WeightCurrent,
                                                       WeightRecency),
                                              WeightPast))
               /\ assigned => FloatGreater(FloatOne, score)

\* a pending day slot whose pool holds a member unknown to MemberStats who
\* works a night week of the build but no day date yet, and a member who
\* already works a day date of the build
C20_Witness ==
    /\ SlotPending
    /\ pc = "day"
    /\ \E m \in Range(SlotPool) :
          /\ m \notin DOMAIN member_stats
          /\ AssignedDates(SlotSchedule.day, m) = {}
          /\ AssignedDates(SlotSchedule.night, m) # {}
    /\ \E m \in Range(SlotPool) : AssignedDates(SlotSchedule.day, m) # {}

(***************************************************************************)
(* Soft day-to-night penalty (settings soft_constraints.day_to_night_gap). *)
(* ScheduleBuilder in src/ has no _calculate_day_to_night_penalty, and its *)
(* _calculate_priority_score takes no slot date and reads no soft          *)
(* constraint.  The operator below is the penalty the specification and    *)
(* tests/test_schedule_builder.py describe, in hundredths; SpecifiedScore  *)
(* is the score the specification describes, not one the builder computes. *)
(***************************************************************************)

_calculate_day_to_night_penalty(member, night_week_start, current_schedule) ==
    LET sc == settings.soft
        days == AssignedDates(current_schedule.day, member)
    IN IF ~ sc.enabled \/ days = {} THEN 0
       ELSE LET gap == night_week_start - Max(days)
            IN IF 0 < gap /\ gap <= sc.days_threshold_strong
               THEN sc.penalty_strong
               ELSE IF sc.days_threshold_strong < gap
                       /\ gap <= sc.days_threshold_weak
                    THEN sc.penalty_weak
                    ELSE 0

\* the score the specification gives a candidate of a slot: the score of the
\* builder, less the penalty for night slots
SpecifiedScore(member, shift_type, current_schedule, target_date, now) ==
    LET base == _calculate_priority_score(member, shift_type, current_schedule,
                                          now)
        pen == IF shift_type = "night"
               THEN _calculate_day_to_night_penalty(member, target_date,
                                                    current_schedule)
               ELSE 0
    IN IF pen = 0 THEN base ELSE FloatAdd(base, FloatDiv(0 - pen, 100))

ProbeDates == start_date..(end_date + 10)

\* the schedule without the day dates of the build: in it a member is the
\* otherwise identical member without a recent day assignment
WithoutDayDates(s) == [s EXCEPT !.day = <<>>]

\* C21 (Soft day-to-night penalty), as claimed: on every schedule a build
\* has completed, for every member, every candidate night week start and
\* every day the clock shows, the score the builder computes for the member
\* as a night candidate is the score of the otherwise identical member
\* without day assignments less the penalty of the gap between the member's
\* latest day assignment of the build and the week start (penalty_strong
\* when 0 < gap <= days_threshold_strong, penalty_weak when
\* days_threshold_strong < gap <= days_threshold_weak, 0 otherwise and
\* whenever the soft constraint is disabled); a penalised member scores
\* strictly lower than the unpenalised one.
C21_SoftPenalty ==
    (pc = "day" /\ weekends = <<>>) =>
    \A m \in AllNames : \A now \in Todays :
      \A score \in {_calculate_priority_score(m, "night", schedule, now)},
         unpenalised \in {_calculate_priority_score(m, "night",
                                                    WithoutDayDates(schedule),
                                                    now)} :
        \A w \in ProbeDates :
          LET pen == _calculate_day_to_night_penalty(m, w, schedule)
          IN /\ pen = 0 => FloatEqual(score, unpenalised)
             /\ pen > 0 =>
                   /\ ScoreGreater(unpenalised, score)
                   /\ FloatEqual(score,
                                 FloatAdd(unpenalised, FloatDiv(0 - pen, 100)))


\* number of validated candidates ranked before position a: a strictly
\* higher score, or the same score and an earlier pool position
RankOf(sc, a) ==
    Cardinality({b \in DOMAIN sc :
                    \/ ScoreGreater(sc[b], sc[a])
                    \/ (~ ScoreGreater(sc[a], sc[b]) /\ b < a)})

\* C22 (Variant pick rule), as claimed: with r the validated candidates of
\* a slot in rank order and n their number, the builder of variant 0
\* assigns r[0] and the builder of a variant i > 0 of width topK assigns
\* r[i mod min(topK, n)], whichever i and topK its caller asks for.
C22_VariantPick ==
    NormalSelection =>
        \A valid \in {SlotValid} :
            valid # <<>> =>
                \A sc \in {SlotScores(valid)}, sel \in {SlotSelected} :
                    LET n == Len(valid)
                        r == [j \in 0..(n - 1) |->
                                 valid[CHOOSE a \in DOMAIN valid : RankOf(sc, a) = j]]
                    IN \A i \in 0..(MaxVariants - 1), top_k \in 1..MaxTopK :
                          sel = IF i = 0 THEN r[0]
                                ELSE r[i % MinOf(top_k, n)]

SingleMemberScenario ==
    /\ settings = SingleMemberSettings
    /\ ng_dates_config = [global |-> {}, by_member |-> <<>>, by_period |-> <<>>]
    /\ member_stats = SingleMemberStats
    /\ start_date = 33 /\ end_date = 48

\* C23 as stated (Single-member scenario): the build over 2025-03-22 ..
\* 2025-04-06 with one member in day index_1_2_group fails, the day slots of
\* the first weekend (days 33, 34) having been filled and the failing slot
\* being a day slot of the second weekend (days 40, 41), the violated rule
\* being the within-build minimum day interval.
C23_SecondWeekendFailure ==
    SingleMemberScenario =>
        /\ returned = <<>>
        /\ ZeroCandidates =>
              /\ SlotType = "day" /\ SlotDate \in {40, 41}
              /\ \A d \in {33, 34} :
                    d \in DOMAIN schedule.day /\ DOMAIN schedule.day[d] = {1, 2, 3}
              /\ "min_interval" \in ViolatedRules("A", SlotDate, SlotType,
                                                 SlotIndex, SlotSchedule)

\* C23 amended: the build fails at index 2 of the first day date
\* 2025-03-22 (day 33): every night slot of the period and index 1 of that
\* date have been filled, the single member holds index 1 of the same date,
\* and the only rule it violates is the within-build minimum day interval
\* (0 days since its last day shift); the build returns no schedule.
C23_SingleMemberFirstDate ==
    SingleMemberScenario =>
        /\ returned = <<>>
        /\ \A k \in DOMAIN raised : raised[k].slot = Slot("day", 33, 2)
        /\ ZeroCandidates =>
              /\ SlotType = "day" /\ SlotDate = 33 /\ SlotIndex = 2
              /\ SlotSchedule.day = (33 :> (1 :> "A"))
              /\ DOMAIN schedule.night = {35, 42}
              /\ \A w \in {35, 42} : DOMAIN schedule.night[w] = {1, 2}
              /\ SlotCandidates = <<"A">>
              /\ ViolatedRules("A", 33, "day", 2, SlotSchedule) = {"min_interval"}

\* the build of the scenario has raised
C23_Witness ==
    /\ SingleMemberScenario
    /\ pc = "idle"
    /\ raised # <<>>
    /\ schedule.day = (33 :> (1 :> "A"))

\* the fixed generation order of the slots of a build: the night weeks of
\* the period that are not full-holiday weeks, ascending, index 1 then 2;
\* then the weekend dates that are not global exclusion dates, ascending,
\* index 1, 2, 3
GenerationOrder ==
    LET W == SortedSeq({d \in start_date..end_date :
                          weekday(d) = 0 /\ ~ is_full_holiday_week(d)})
        D == SortedSeq({d \in start_date..end_date :
                          weekday(d) \in {5, 6} /\ d \notin global_ng_dates})
    IN [k \in 1..(2 * Len(W)) |->
           Slot("night", W[(k + 1) \div 2], ((k - 1) % 2) + 1)]
       \o [k \in 1..(3 * Len(D)) |->
              Slot("day", D[(k + 2) \div 3], ((k - 1) % 3) + 1)]

NightSlotsOf(order) == {k \in DOMAIN order : order[k].shift_type = "night"}

\* C24 (Fixed fill order): at every point of a build the committed slots are
\* a prefix of the fixed generation order and the slot being evaluated is the
\* next one of that order; while a day slot is evaluated every night slot is
\* committed; and after a slot had no valid candidate the build has stopped
\* at it: the committed slots end just before the failed slot and nothing is
\* evaluated.
C24_FillOrder ==
    \A order \in {GenerationOrder} :
        /\ Len(trail) <= Len(order)
        /\ trail = SubSeq(order, 1, Len(trail))
        /\ SlotPending =>
              /\ Len(trail) < Len(order)
              /\ order[Len(trail) + 1] = Slot(SlotType, SlotDate, SlotIndex)
        /\ pc = "day" => NightSlotsOf(order) \subseteq DOMAIN trail
        /\ (pc = "idle" /\ raised # <<>> /\ trail # order) =>
              /\ ~ SlotPending
              /\ raised[Len(raised)].slot = order[Len(trail) + 1]
        /\ (pc = "idle" /\ raised = <<>>) =>
              (trail = <<>> \/ trail = order)

\* a build has stopped at a day slot after committing every night slot and
\* some day slots, with later slots of the order left untouched
C24_Witness ==
    /\ pc = "idle"
    /\ raised # <<>>
    /\ raised[Len(raised)].slot.shift_type = "day"
    /\ \E k \in DOMAIN trail : trail[k].shift_type = "day"
    /\ NightSlotsOf(GenerationOrder) # {}
    /\ Len(trail) + 1 < Len(GenerationOrder)

\* the selected member of the pending slot is a validated candidate of the
\* pool, none has a strictly higher score, and it is the earliest of the
\* pool among those with the highest score
GreedyChoice(valid, sc, sel) ==
    \E a \in DOMAIN valid :
        /\ sel = valid[a]
        /\ \A b \in DOMAIN valid : ~ ScoreGreater(sc[b], sc[a])
        /\ \A b \in DOMAIN valid :
              (~ ScoreGreater(sc[a], sc[b])) => a <= b

\* the selected member belongs to the pool of the pending slot and passes
\* validation against the in-progress schedule
ValidChoice(sel) ==
    /\ \E p \in DOMAIN SlotCandidates : SlotCandidates[p] = sel
    /\ IsValid(sel, SlotDate, SlotType, SlotIndex, SlotSchedule)

\* C25 (Greedy selection with stable tie-break): for every slot filled by
\* normal selection the assigned member belongs to the pool and passed
\* validation against the in-progress schedule, no other validated
\* candidate has a strictly higher score, and among those sharing the
\* highest score the earliest of the configured order is taken.
C25_GreedyEverySlot ==
    NormalSelection =>
        \A valid \in {SlotValid} :
            valid # <<>> =>
                \A clock \in ClockReads(Len(valid)) :
                    \A sc \in {ScoreList(valid, SlotType, SlotSchedule, clock)},
                       sel \in {SlotSelectedAt(clock)} :
                        ValidChoice(sel) /\ GreedyChoice(valid, sc, sel)

\* a later slot where the highest score is shared with a later member of the
\* pool, and a lower-scoring validated candidate stands before the selected
\* one
C25_Witness ==
    /\ NormalSelection
    /\ trail # <<>>
    /\ \E a, b, c \in DOMAIN SlotValid :
          /\ c < a /\ a < b
          /\ SlotSelected = SlotValid[a]
          /\ ScoreGreater(SlotScores(SlotValid)[a], SlotScores(SlotValid)[c])
          /\ ~ ScoreGreater(SlotScores(SlotValid)[a], SlotScores(SlotValid)[b])
          /\ ~ ScoreGreater(SlotScores(SlotValid)[b], SlotScores(SlotValid)[a])

\* the names a group of the settings lists with active = true (or without
\* the key), in the order of the group
ActiveNamesOf(group) ==
    LET keep == SortedSeq({k \in DOMAIN group : group[k].active # "false"})
    IN [i \in 1..Len(keep) |-> group[keep[i]].name]

\* C26 (Per-group active flag), as claimed: each of the four candidate pools
\* consists exactly of the members of its group whose entry in that same
\* group is active, whatever the entries of the member in other groups say.
C26_PerGroupActive ==
    /\ day_index_1_2_group = ActiveNamesOf(settings.day12)
    /\ day_index_3_group = ActiveNamesOf(settings.day3)
    /\ night_index_1_group = ActiveNamesOf(settings.night1)
    /\ night_index_2_group = ActiveNamesOf(settings.night2)

\* a build is selecting for a day slot from a pool that lacks a member whose
\* entry in the day index_1_2_group is active, being inactive in a night group
C26_ActiveMemberDropped ==
    /\ pc = "day" /\ SlotPending /\ index \in {1, 2}
    /\ \E k \in DOMAIN settings.day12 :
          /\ settings.day12[k].active = "true"
          /\ settings.day12[k].name \notin Range(day_index_1_2_group)

\* C27 (Alternating-week exclusivity), as claimed: with the fixed pattern
\* enabled, in every returned schedule the fixed member holds a night slot
\* only in weeks of even parity; in a week of odd parity night index 2 is
\* never the fixed member.
C27_AlternatingWeeks ==
    \A k \in DOMAIN returned :
        LET s == returned[k].schedule
        IN matsuda_enabled =>
              \A w \in DOMAIN s.night :
                  matsuda_name \in MembersAt(s.night, w)
                      => check_matsuda_biweekly(w, matsuda_reference_date)

\* C28 (Personal exclusion over the whole night week), as claimed: in every
\* returned schedule no member holds a night week w when any of the dates
\* w .. w+6 is one of its by_member dates or lies in one of its by_period
\* ranges.
C28_WholeWeekExclusion ==
    \A k \in DOMAIN returned :
        LET s == returned[k].schedule
        IN \A w \in DOMAIN s.night : \A m \in MembersAt(s.night, w) :
              \A d \in w..(w + 6) : ~ Excluded(m, d)

\* every effective minimum interval is at least one day: the three settings
\* after defaults and every per-member override
IntervalsPositive ==
    /\ min_days_day >= 1 /\ min_days_day_index3 >= 1 /\ min_days_night >= 1
    /\ \A k \in DOMAIN AllEntries :
          /\ AllEntries[k].min_days_day # Unset => AllEntries[k].min_days_day >= 1
          /\ AllEntries[k].min_days_night # Unset => AllEntries[k].min_days_night >= 1

Distinct(f) == \A i, j \in DOMAIN f : i # j => f[i] # f[j]

\* C29 (Distinct members per slot group): in every returned schedule of a
\* configuration whose effective minimum intervals are all at least 1 day,
\* the three members of a day date are pairwise distinct and the two members
\* of a night week are distinct.
C29_DistinctMembers ==
    IntervalsPositive =>
        \A k \in DOMAIN returned :
            LET s == returned[k].schedule
            IN /\ \A d \in DOMAIN s.day : Distinct(s.day[d])
               /\ \A w \in DOMAIN s.night : Distinct(s.night[w])

\* a returned schedule of a configuration with intervals of one day where a
\* member listed for both night indexes holds index 1 of a week and a member
\* listed for both day tracks holds index 1 of a day date
C29_Witness ==
    /\ IntervalsPositive
    /\ \E k \in DOMAIN returned :
          LET s == returned[k].schedule
          IN /\ \E w \in DOMAIN s.night :
                   /\ s.night[w][1] \in Range(night_index_2_group)
                   /\ s.night[w][2] # s.night[w][1]
             /\ \E d \in DOMAIN s.day :
                   /\ s.day[d][1] \in Range(day_index_3_group)
                   /\ Distinct(s.day[d])

\* with an interval of 0 days the same member holds both indexes of a week
C29_DuplicateAtZero ==
    /\ ~ IntervalsPositive
    /\ \E k \in DOMAIN returned :
          \E w \in DOMAIN returned[k].schedule.night :
              ~ Distinct(returned[k].schedule.night[w])

\* C30 (Soft penalty is inert during a build): whenever a night slot is
\* evaluated the in-progress schedule holds no day assignment, so for every
\* candidate of the slot, the fixed member included, the day-to-night
\* penalty is 0 and the score less the penalty equals the score the builder
\* computes,
\* whether the soft constraint is enabled or not and whatever its thresholds
\* and penalties; the selection, and with it the returned schedule, does not
\* depend on the soft constraint.
C30_PenaltyInert ==
    (SlotPending /\ SlotType = "night") =>
        /\ DOMAIN SlotSchedule.day = {}
        /\ \A m \in Range(SlotPool) :
              /\ _calculate_day_to_night_penalty(m, SlotDate, SlotSchedule) = 0
              /\ \A now \in Todays :
                    FloatEqual(SpecifiedScore(m, "night", SlotSchedule,
                                              SlotDate, now),
                               _calculate_priority_score(m, "night",
                                                         SlotSchedule, now))

\* a later night slot is evaluated with the soft constraint enabled for a
\* candidate of a day pool too, whom a day date of the period before the
\* week would bring the penalty, had the day dates been filled first
C30_Witness ==
    /\ SlotPending /\ SlotType = "night"
    /\ settings.soft.enabled
    /\ trail # <<>>
    /\ \E m \in Range(SlotPool) \cap Range(day_index_1_2_group) :
          \E d \in start_date..SlotDate :
              /\ weekday(d) \in {5, 6}
              /\ d \notin global_ng_dates
              /\ _calculate_day_to_night_penalty(
                     m, SlotDate, PutDay(OpenDay(SlotSchedule, d), d, 1, m)) > 0
              /\ _calculate_day_to_night_penalty(m, SlotDate, SlotSchedule) = 0

====
